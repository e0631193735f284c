------------------------------- MODULE MC_Tabs -------------------------------
EXTENDS Tabs

\* Four of the page's ten Tabs blocks, all of group "shell".
MCInstances == {"b1", "b2", "b3", "b4"}

\* The TabItems of every block: d.Fo ("pwsh") first, then d.q5 ("bash").
MCValues == <<"pwsh", "bash">>

\* localStorage may already hold either shell, or "zsh" (a value no block
\* of this page offers).
MCStored == {"pwsh", "bash", "zsh"}
====
