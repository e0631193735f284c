---------------------------- MODULE MdxComponents ----------------------------
(***************************************************************************)
(* How the documentation pages pick the React component of an MDX element. *)
(* Two runtimes are bundled:                                               *)
(*   MDX 1 (@mdx-js/react 1, webpack module 3905 of 1222ea4e.93c74363,     *)
(*   d459b1c4.676072aa and f7ad8943.9746b633): MDXProvider p(),            *)
(*   useMDXComponents d() and MDXCreateElement c();                        *)
(*   MDX 2+ (@mdx-js/react, module 8453 of a4d3e054.fedc061b,              *)
(*   d459b1c4.ce3bf5fd and e3ac21cb.752a3bf9): useMDXComponents R(),       *)
(*   MDXProvider x() and the compiled page functions.                      *)
(*                                                                         *)
(* A components object is a function from element names to values: a      *)
(* component (C1, C2) or Undef, a key that is present with a falsy value   *)
(* (undefined, null).  A missing key is a name outside the domain.  A      *)
(* provider is a record: kind "map" (components is an object), "fn"        *)
(* (components is a function; the functions modelled ignore the parent    *)
(* context and return their own object) or "isolated" (an object given     *)
(* with disableParentContext).                                             *)
(*                                                                         *)
(* The state is the chain of providers above the MDX content, outermost    *)
(* first, and the components prop given to the page's MDXContent.          *)
(***************************************************************************)
EXTENDS Integers, Sequences, SequencesExt

CONSTANTS
    Undef,
    Comps,          \* the components a provider can map to
    ProviderKeys,   \* the names a provider may define
    PropsKeys,      \* the names the page's components prop may define
    MaxDepth        \* providers nested above the content

Values == Comps \cup {Undef}
Kinds == {"map", "fn", "isolated"}

\* The components objects over keys K.
Objects(K) == UNION {[D -> Values] : D \in SUBSET K}

Providers == [kind : Kinds, components : Objects(ProviderKeys)]

Empty == [k \in {} |-> Undef]

VARIABLES
    stack,      \* the providers above the content, outermost first
    props       \* the components prop of MDXContent

vars == <<stack, props>>

\* {...t, ...e}: e's own keys, undefined ones included, override t's.
Spread(t, e) == e @@ t

\* What a lookup of a missing key gives.
Absent == "absent"

Truthy(v) == v \notin {Undef, Absent}

-----------------------------------------------------------------------------
(* MDX 1.                                                                  *)

\* p(): the provider merges its components into the parent context d(e);
\* a function replaces it.  p() has no disableParentContext.
RECURSIVE Context1(_)
Context1(s) ==
    IF s = <<>> THEN Empty
    ELSE LET p == Last(s) IN
         IF p.kind = "fn" THEN p.components ELSE Spread(Context1(Front(s)), p.components)

\* m of module 3905: the built-in fallbacks.
Defaults1 == [inlineCode |-> "code", wrapper |-> "Fragment"]

Get(o, k) == IF k \in DOMAIN o THEN o[k] ELSE Absent

\* The lookup with the plain name tried before the qualified one.
Resolve1PlainFirst(ctx, type, parent) ==
    LET tries == <<Get(ctx, type), Get(ctx, parent \o "." \o type), Get(Defaults1, type)>>
        hits == {i \in 1..3 : Truthy(tries[i])}
    IN IF hits = {} THEN type ELSE tries[CHOOSE i \in hits : \A j \in hits : i <= j]

\* c(): u[parentName + "." + mdxType] || u[mdxType] || m[mdxType] ||
\* originalType, where u = d(components) and the element carries no
\* components of its own.
Resolve1(ctx, type, parent) ==
    LET qualified == parent \o "." \o type
        tries == <<Get(ctx, qualified), Get(ctx, type), Get(Defaults1, type)>>
        hits == {i \in 1..3 : Truthy(tries[i])}
    IN IF hits = {} THEN type ELSE tries[CHOOSE i \in hits : \A j \in hits : i <= j]

\* The page's MDXLayout element ("wrapper") carries components={props},
\* so its own d() adds them to the context.
Wrapper1(s, pc) == Resolve1(Spread(Context1(s), pc), "wrapper", "")

-----------------------------------------------------------------------------
(* MDX 2+.                                                                 *)

\* A provider that ignores disableParentContext.
Context2Merged(s) == Context1(s)

\* x(): with disableParentContext, components itself (a function called
\* with {}); otherwise R(components): the function applied to the parent
\* context, or {...parent, ...components}.
RECURSIVE Context2(_)
Context2(s) ==
    IF s = <<>> THEN Empty
    ELSE LET p == Last(s) IN
         IF p.kind \in {"fn", "isolated"} THEN p.components
         ELSE Spread(Context2(Front(s)), p.components)

\* The defaults the compiled page writes for the names it uses.
Defaults2 == [code |-> "code", h1 |-> "h1"]

\* The page function: {defaults, ...R(), ...props.components}[name].
Resolve2(s, pc, name) == Spread(Spread(Defaults2, Context2(s)), pc)[name]

\* The MDXContent function: {...R(), ...props.components}.wrapper, used
\* only when truthy.
Wrapper2(s, pc) ==
    LET w == Get(Spread(Context2(s), pc), "wrapper") IN IF Truthy(w) THEN w ELSE "none"

-----------------------------------------------------------------------------

Init == stack = <<>> /\ props \in Objects(PropsKeys)

\* A provider is rendered around the content.
OpenProvider(p) ==
    /\ Len(stack) < MaxDepth
    /\ stack' = Append(stack, p)
    /\ UNCHANGED props

\* The innermost provider is removed.
CloseProvider ==
    /\ stack # <<>>
    /\ stack' = Front(stack)
    /\ UNCHANGED props

\* The page is rendered with another components prop.
SetProps(pc) ==
    /\ props' = pc
    /\ UNCHANGED stack

Next ==
    \/ \E p \in Providers : OpenProvider(p)
    \/ CloseProvider
    \/ \E pc \in Objects(PropsKeys) : SetProps(pc)

Spec == Init /\ [][Next]_vars

-----------------------------------------------------------------------------
(* The contract: the nearest provider that defines a name decides it; a    *)
(* provider that does not inherit hides everything outside it.             *)

\* The providers a lookup sees: from the innermost one that does not
\* inherit (for the runtime: which kinds do not) to the innermost.
FirstVisible(s, noInherit) ==
    LET cut == {i \in 1..Len(s) : s[i].kind \in noInherit}
    IN IF cut = {} THEN 1 ELSE CHOOSE i \in cut : \A j \in cut : j <= i

Nearest(s, noInherit, k) ==
    LET def == {i \in FirstVisible(s, noInherit)..Len(s) : k \in DOMAIN s[i].components}
    IN IF def = {} THEN Absent
       ELSE s[CHOOSE i \in def : \A j \in def : j <= i].components[k]

FirstTruthy(seq, otherwise) ==
    LET hits == {i \in 1..Len(seq) : Truthy(seq[i])}
    IN IF hits = {} THEN otherwise ELSE seq[CHOOSE i \in hits : \A j \in hits : i <= j]

\* The page's components prop, seen as one more provider inside the others.
WithProps(s) == Append(s, [kind |-> "map", components |-> props])

\* MDX 1: a code block (code inside pre) and inline code (inlineCode inside
\* p) get the component of the nearest provider defining "pre.code" or
\* "code" (the qualified name first; a name defined falsy falls through to
\* the next), then the built-in default, then the tag itself.  The layout
\* looks at the page's components prop first.
Mdx1ResolvesNearest ==
    /\ \A e \in {<<"code", "pre">>, <<"inlineCode", "p">>} :
          Resolve1(Context1(stack), e[1], e[2])
            = FirstTruthy(<<Nearest(stack, {"fn"}, e[2] \o "." \o e[1]),
                            Nearest(stack, {"fn"}, e[1]),
                            Get(Defaults1, e[1])>>, e[1])
    /\ Wrapper1(stack, props)
         = FirstTruthy(<<Nearest(WithProps(stack), {"fn"}, "wrapper")>>, "Fragment")

\* MDX 2+: an element name gets the value of the nearest definition among
\* the page's components prop and the providers, where a provider with
\* disableParentContext or a function hides the ones outside it, and the
\* page's own default only when nothing visible defines the name.  The
\* layout is the nearest definition of "wrapper", or none.
Mdx2ResolvesNearest ==
    /\ \A name \in DOMAIN Defaults2 :
          LET n == Nearest(WithProps(stack), {"fn", "isolated"}, name)
          IN Resolve2(stack, props, name) = IF n = Absent THEN Defaults2[name] ELSE n
    /\ Wrapper2(stack, props)
         = FirstTruthy(<<Nearest(WithProps(stack), {"fn", "isolated"}, "wrapper")>>, "none")
====
