--------------------------- MODULE MC_MdxComponents ---------------------------
EXTENDS MdxComponents, TLC

CONSTANTS C1, C2

\* Two components, so that the nearest and a farther provider differ.
\* Nothing in the runtimes tells one component from another, so the two
\* are a symmetry set.
MCComps == {C1, C2}
MCSymmetry == Permutations(MCComps)

\* A provider may define the plain and the parent-qualified name of code;
\* the page's components prop may define code and the layout.
MCProviderKeys == {"code", "pre.code"}
MCPropsKeys == {"code", "wrapper"}
====
