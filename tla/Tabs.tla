-------------------------------- MODULE Tabs --------------------------------
(***************************************************************************)
(* The synchronised tabs of the "Building: Hello world" page              *)
(* (src/assets/js/feaee7f3.632021a1.js, webpack module 5488: the Tabs      *)
(* component m() and its wrapper c()).  Every Tabs block of the page has   *)
(* groupId "shell" and the TabItems pwsh and bash, in that order, without  *)
(* a default: choosing a shell in one block must switch all of them, and  *)
(* the choice is remembered across page loads.                             *)
(*                                                                         *)
(* The choice store is the TabGroupChoice provider the component reads     *)
(* through useTabGroupChoice() (module 7094, not part of the bundle): it   *)
(* keeps tabGroupChoices in React state, writes every choice to            *)
(* localStorage, and loads localStorage into its state in a mount effect.  *)
(*                                                                         *)
(* React flushes the updates made in a click or focus handler before the   *)
(* next event, so a handler and the re-render it causes are one step.  The *)
(* update made by the provider's mount effect is rendered later, and user  *)
(* events may be handled before that render.                               *)
(***************************************************************************)
EXTENDS Integers, Sequences, FiniteSets

CONSTANTS
    Null,
    Instances,      \* the Tabs blocks of the page
    Values,         \* the values of their TabItems, in order
    Stored,         \* what localStorage may hold for the group at first
    MaxClicks,      \* tab selections by the reader
    MaxReloads      \* page reloads

ASSUME Values \in Seq(STRING) /\ Len(Values) > 0
\* m() throws on duplicate values.
ASSUME \A i, j \in 1..Len(Values) : i # j => Values[i] # Values[j]

Offered == {Values[k] : k \in 1..Len(Values)}

VARIABLES
    selected,   \* selected[i]: the useState value f of block i
    focus,      \* the focused tab element: <<block, index>> or Null
    hydrated,   \* the page is hydrated (useIsBrowser())
    loaded,     \* the provider's mount effect has run
    choice,     \* tabGroupChoices["shell"] in the provider state, or Null
    pending,    \* a provider update is not rendered yet
    storage,    \* localStorage "docusaurus.tab.shell", or Null
    last,       \* the last value the reader selected, or Null
    clicks,
    reloads

vars == <<selected, focus, hydrated, loaded, choice, pending, storage, last, clicks, reloads>>

\* T of m(): no defaultValue and no TabItem marked default, so the value
\* of the first TabItem.
DefaultValue == Values[1]

\* A synchronisation without the check that the choice is a value.
SyncedAllUnchecked(c, sel) ==
    [i \in Instances |-> IF c # Null /\ c # sel[i] THEN c ELSE sel[i]]

\* The render-time synchronisation of m(): a group choice that differs
\* from f and is one of the values replaces f.
SyncedAll(c, sel) ==
    [i \in Instances |-> IF c # Null /\ c # sel[i] /\ c \in Offered THEN c ELSE sel[i]]

Init ==
    /\ selected = [i \in Instances |-> DefaultValue]
    /\ focus = Null
    /\ hydrated = FALSE /\ loaded = FALSE
    /\ choice = Null /\ pending = FALSE
    /\ storage \in {Null} \cup Stored
    /\ last = Null
    /\ clicks = 0 /\ reloads = 0

\* Hydration changes the key String(useIsBrowser()) that c() gives m():
\* every block is mounted again with f = T.
Hydrate ==
    /\ ~hydrated
    /\ hydrated' = TRUE
    /\ selected' = [i \in Instances |-> DefaultValue]
    /\ UNCHANGED <<focus, loaded, choice, pending, storage, last, clicks, reloads>>

\* The provider's mount effect: setChoices(localStorageChoices).
LoadChoices ==
    /\ hydrated /\ ~loaded
    /\ loaded' = TRUE
    /\ choice' = storage
    /\ pending' = TRUE
    /\ UNCHANGED <<selected, focus, hydrated, storage, last, clicks, reloads>>

\* A render that leaves every block's state as it was.
RenderAllStale ==
    /\ pending
    /\ pending' = FALSE
    /\ UNCHANGED <<selected, focus, hydrated, loaded, choice, storage, last, clicks, reloads>>

\* React renders the pending provider update: every block synchronises.
RenderAll ==
    /\ pending
    /\ selected' = SyncedAll(choice, selected)
    /\ pending' = FALSE
    /\ UNCHANGED <<focus, hydrated, loaded, choice, storage, last, clicks, reloads>>

\* _(): the onFocus/onClick handler on tab k of block i.  When the tab's
\* value differs from f: v(n) and setTabGroupChoices("shell", String(n)),
\* which sets the provider state and localStorage; React then re-renders
\* every block with the new choice.
SelectTab(i, k) ==
    LET n == Values[k] IN
    /\ focus' = <<i, k>>
    /\ last' = n
    /\ IF n # selected[i]
          THEN /\ choice' = n /\ storage' = n
               /\ selected' = SyncedAll(n, [selected EXCEPT ![i] = n])
          ELSE UNCHANGED <<choice, storage, selected>>

\* The reader clicks tab k of block i.
Click(i, k) ==
    /\ hydrated /\ clicks < MaxClicks
    /\ SelectTab(i, k)
    /\ clicks' = clicks + 1
    /\ UNCHANGED <<hydrated, loaded, pending, reloads>>

\* H(): ArrowRight / ArrowLeft on the focused tab focuses the next or the
\* previous tab of the block, wrapping around; the focus runs _().
ArrowKey(dir) ==
    /\ hydrated /\ focus # Null /\ clicks < MaxClicks
    /\ LET k == focus[2] + dir
           t == IF k > Len(Values) THEN 1 ELSE IF k < 1 THEN Len(Values) ELSE k
       IN SelectTab(focus[1], t)
    /\ clicks' = clicks + 1
    /\ UNCHANGED <<hydrated, loaded, pending, reloads>>

\* The reader reloads the page: only localStorage survives.
Reload ==
    /\ reloads < MaxReloads
    /\ reloads' = reloads + 1
    /\ selected' = [i \in Instances |-> DefaultValue]
    /\ focus' = Null
    /\ hydrated' = FALSE /\ loaded' = FALSE
    /\ choice' = Null /\ pending' = FALSE
    /\ UNCHANGED <<storage, last, clicks>>

\* The reader has stopped: the page is quiet and stays so.
Done ==
    /\ hydrated /\ loaded /\ ~pending
    /\ clicks = MaxClicks /\ reloads = MaxReloads
    /\ UNCHANGED vars

Next ==
    \/ Hydrate \/ LoadChoices \/ RenderAll
    \/ \E i \in Instances, k \in 1..Len(Values) : Click(i, k)
    \/ \E dir \in {-1, 1} : ArrowKey(dir)
    \/ Reload
    \/ Done

\* The browser hydrates the page and runs the effect, and React renders
\* every scheduled update.
Fairness == WF_vars(Hydrate) /\ WF_vars(LoadChoices) /\ WF_vars(RenderAll)

Spec == Init /\ [][Next]_vars /\ Fairness

-----------------------------------------------------------------------------

\* Every block shows one of its own tabs: a stored choice that is not a
\* value of the block (another page's group, an older site) never becomes
\* its selection.
SelectedIsOffered == \A i \in Instances : selected[i] \in Offered

\* Once the group choice is v, every block eventually shows v, unless the
\* choice changes first: after a click in one block, and after a reload
\* with v in localStorage.
GroupConverges ==
    \A v \in Offered :
        (hydrated /\ choice = v) ~> (choice # v \/ \A i \in Instances : selected[i] = v)

\* When the page is quiet (hydrated, choices loaded, nothing left to
\* render), every block shows the tab the reader selected last, in this
\* page load or an earlier one.
LastSelectionShown ==
    hydrated /\ loaded /\ ~pending /\ last # Null => \A i \in Instances : selected[i] = last
====
