----------------------------- MODULE FolderPaths -----------------------------
(***************************************************************************)
(* The folder helpers of the "Building: Hello world" documentation page    *)
(* (src/assets/js/feaee7f3.632021a1.js, webpack modules 2044 and 6005):    *)
(* rootFolderPath(), applicationFolder(), applicationFolderPath(),         *)
(* folderDefaultValue() and convertToCmakeEnvVariable(), with the regular  *)
(* expressions they apply.                                                 *)
(*                                                                         *)
(* A string is a sequence of symbols.  Every name (USERPROFILE, Code,      *)
(* TestApp, ...) is the symbol "a"; "E" stands for the five characters     *)
(* "$env:" of PowerShell, "$" for the '$' of a bash variable, "{" and "}"  *)
(* for the braces of the "$ENV{...}" that the CMake conversion writes      *)
(* (its "$ENV" is the symbol "V").                                         *)
(*                                                                         *)
(* The page state is what the reader typed into the root folder inputs     *)
(* (rootFolder of the RootFolder context, Null where nothing was typed)    *)
(* and whether the page runs in the browser or is being rendered on the    *)
(* server (useIsBrowser()).                                                *)
(***************************************************************************)
EXTENDS Integers, Sequences, SequencesExt

CONSTANTS
    Null,       \* rootFolder[groupId] is undefined
    MaxLen,     \* longest folder a reader types
    MaxEdits    \* number of edits of the inputs

\* The groupIds of module 2044: the two shells and the application folder.
Pwsh == "pwsh"
Bash == "bash"
Application == "application"
FolderGroups == {Pwsh, Bash, Application}

Seps == {"/", "\\"}

\* What a reader may type for each folder.
Symbols(g) == CASE g = Pwsh -> {"E", "a", "\\", "/", " "}
                [] g = Bash -> {"$", "a", "\\", "/", " "}
                [] OTHER    -> {"a", "\\", "/"}

VARIABLES
    rootFolder, \* rootFolder[g]: the folder typed for group g, or Null
    isBrowser,  \* the page is hydrated in the browser
    edits       \* edits so far

vars == <<rootFolder, isBrowser, edits>>

-----------------------------------------------------------------------------
(* The string functions of module 6005.                                    *)

\* A variant removing a single separator: /[/\\]$/.
TrimTrailingOne(s) == IF s # <<>> /\ Last(s) \in Seps THEN Front(s) ELSE s

\* c(): e.replace(/[/\\]+$/, "") removes the trailing run of separators.
RECURSIVE TrimTrailing(_)
TrimTrailing(s) ==
    IF s # <<>> /\ Last(s) \in Seps THEN TrimTrailing(Front(s)) ELSE s

\* The length of the run of symbols c that s starts with.
RECURSIVE RunOf(_, _)
RunOf(c, s) == IF s # <<>> /\ Head(s) = c THEN 1 + RunOf(c, Tail(s)) ELSE 0

\* k(): e.replaceAll(/\\+(?! )/g, "/").  A run of backslashes not followed
\* by a space becomes one "/".  Before a space the greedy run backtracks:
\* all but the last backslash become "/" and the last one is kept.
RECURSIVE ToSlash(_)
ToSlash(s) ==
    IF s = <<>> THEN <<>>
    ELSE IF Head(s) # "\\" THEN <<Head(s)>> \o ToSlash(Tail(s))
    ELSE LET n    == RunOf("\\", s)
             rest == SubSeq(s, n + 1, Len(s))
         IN IF rest # <<>> /\ Head(rest) = " "
               THEN (IF n >= 2 THEN <<"/">> ELSE <<>>) \o <<"\\">> \o ToSlash(rest)
               ELSE <<"/">> \o ToSlash(rest)

\* e.replaceAll(/\/+/g, "\\"): every run of slashes becomes one backslash.
RECURSIVE ToBackslash(_)
ToBackslash(s) ==
    IF s = <<>> THEN <<>>
    ELSE IF Head(s) # "/" THEN <<Head(s)>> \o ToBackslash(Tail(s))
    ELSE <<"\\">> \o ToBackslash(SubSeq(s, RunOf("/", s) + 1, Len(s)))

\* m(e, l, t): an empty folder is returned as it is; other shells only lose
\* the trailing separators; PowerShell folders are then written with
\* slashes (t, the default) or with backslashes.
Normalize(s, g, toSlash) ==
    CASE s = <<>>   -> s
      [] g # Pwsh   -> TrimTrailing(s)
      [] toSlash    -> ToSlash(TrimTrailing(s))
      [] OTHER      -> ToBackslash(TrimTrailing(s))

\* p(): folderDefaultValue().  While rendering on the server it is "".
FolderDefault(g) ==
    CASE ~isBrowser      -> <<>>
      [] g = Pwsh        -> <<"E", "a", "\\", "a", "\\", "a", "\\">>  \* $env:USERPROFILE\Code\c\
      [] g = Bash        -> <<"$", "a", "/", "a", "/", "a", "/">>      \* $HOME/Code/c/
      [] g = Application -> <<"a">>                                  \* TestApp

\* The ?? of i() and r(): the typed folder unless it is undefined.
Typed(g) == IF rootFolder[g] # Null THEN rootFolder[g] ELSE FolderDefault(g)

\* i(): rootFolderPath(groupId, toSlash).
RootFolderPath(g, toSlash) == Normalize(Typed(g), g, toSlash)

\* r(): applicationFolder(), not normalized.
ApplicationFolder == Typed(Application)

\* d(): applicationFolderPath(groupId, toSlash).  The root comes from i(e),
\* whose toSlash defaults to true; toSlash only applies to the final m().
ApplicationFolderPath(g, toSlash) ==
    LET sep == IF toSlash \/ g # Pwsh THEN "/" ELSE "\\"
    IN Normalize(RootFolderPath(g, TRUE) \o <<sep>> \o ApplicationFolder, g, toSlash)

\* The variable prefix that the CMake conversion of shell g looks for.
VarToken(g) == IF g = Pwsh THEN "E" ELSE "$"

\* The first match of /\$env:(.+?)(\/.*)/ (PowerShell) or /\$(.+?)(\/.*)/
\* (bash): the leftmost variable token with a slash at least two symbols
\* after it, the name running lazily up to the first such slash.
CmakeMatches(g, s) ==
    {<<i, j>> \in (1..Len(s)) \X (1..Len(s)) :
        s[i] = VarToken(g) /\ j >= i + 2 /\ s[j] = "/"}

\* The leftmost match, the name running lazily to its first slash.
LazyMatch(g, s) ==
    CHOOSE m \in CmakeMatches(g, s) :
        \A o \in CmakeMatches(g, s) : m[1] < o[1] \/ (m[1] = o[1] /\ m[2] <= o[2])

CmakeReplace(g, s, m) ==
    SubSeq(s, 1, m[1] - 1) \o <<"V", "{">> \o SubSeq(s, m[1] + 1, m[2] - 1)
        \o <<"}">> \o SubSeq(s, m[2], Len(s))

\* u(): convertToCmakeEnvVariable(shell, path).  PowerShell paths first
\* have their backslashes turned into slashes by k().
ConvertToCmakeEnvVariable(g, path) ==
    LET s == IF g = Pwsh THEN ToSlash(path) ELSE path
    IN CASE path = <<>>               -> path
         [] CmakeMatches(g, s) = {}   -> s
         [] OTHER                     -> CmakeReplace(g, s, LazyMatch(g, s))

-----------------------------------------------------------------------------
(* The page.                                                               *)

Init ==
    /\ rootFolder = [g \in FolderGroups |-> Null]
    /\ isBrowser = FALSE
    /\ edits = 0

\* The page is hydrated: useIsBrowser() turns true.
Hydrate ==
    /\ ~isBrowser
    /\ isBrowser' = TRUE
    /\ UNCHANGED <<rootFolder, edits>>

\* The reader types a folder into the input of group g.
SetRootFolder(g, s) ==
    /\ isBrowser
    /\ edits < MaxEdits
    /\ rootFolder' = [rootFolder EXCEPT ![g] = s]
    /\ edits' = edits + 1
    /\ UNCHANGED isBrowser

Done == isBrowser /\ edits = MaxEdits /\ UNCHANGED vars

Next ==
    \/ Hydrate
    \/ \E g \in FolderGroups : \E s \in BoundedSeq(Symbols(g), MaxLen) : SetRootFolder(g, s)
    \/ Done

Spec == Init /\ [][Next]_vars

-----------------------------------------------------------------------------
(* What the page renders and what it promises.                             *)

\* The folders the page writes into its command lines (module 4588),
\* the CMake forms u(shell, d(shell)) of the CMAKE_PREFIX_PATH lines included.
RenderedFolders ==
    {RootFolderPath(Pwsh, TRUE), RootFolderPath(Bash, TRUE),
     ApplicationFolderPath(Pwsh, TRUE), ApplicationFolderPath(Bash, TRUE),
     ApplicationFolderPath(Pwsh, FALSE),
     ConvertToCmakeEnvVariable(Pwsh, ApplicationFolderPath(Pwsh, TRUE)),
     ConvertToCmakeEnvVariable(Bash, ApplicationFolderPath(Bash, TRUE))}

\* The page appends "/TinyORM/..." or "\TinyORM\..." to these folders: none
\* of them ends with a separator, whatever the reader typed, so no command
\* gets a doubled separator or a path that changes meaning.
RenderedFoldersTrimmed ==
    \A f \in RenderedFolders : f = <<>> \/ Last(f) \notin Seps

\* Windows reads a path as its leading separators (none, one: rooted, two
\* or more: a UNC share) and its segments between runs of separators.
RECURSIVE SepRun(_)
SepRun(s) == IF s # <<>> /\ Head(s) \in Seps THEN 1 + SepRun(Tail(s)) ELSE 0

RECURSIVE Segments(_)
Segments(s) ==
    LET t == SubSeq(s, SepRun(s) + 1, Len(s))
        n == IF \E i \in 1..Len(t) : t[i] \in Seps
                THEN (CHOOSE i \in 1..Len(t) : t[i] \in Seps /\ \A k \in 1..i - 1 : t[k] \notin Seps) - 1
                ELSE Len(t)
    IN IF t = <<>> THEN <<>> ELSE <<SubSeq(t, 1, n)>> \o Segments(SubSeq(t, n + 1, Len(t)))

WindowsPath(s) == [lead |-> IF SepRun(s) > 2 THEN 2 ELSE SepRun(s), segments |-> Segments(s)]

\* The page gives the PowerShell application folder both with slashes
\* (applicationFolderPath(pwsh)) and with backslashes
\* (applicationFolderPath(pwsh, false), in the $env:Path line): both forms
\* name the same Windows folder.
SlashAndBackslashFormsAgree ==
    WindowsPath(ApplicationFolderPath(Pwsh, TRUE)) = WindowsPath(ApplicationFolderPath(Pwsh, FALSE))
====
