---------------------------- MODULE MCToolStart ----------------------------
EXTENDS ToolStart

Names == {"a", "b", "-", "a/b"}

\* Each name leads to a place of its own.
Straight == [n \in Names |-> n]

\* "b" is a link to "a".
Linked == [Straight EXCEPT !["b"] = "a"]

\* Every directory with up to three regular files and a directory, left alone, with
\* a link in it or not, and two that another program changes twice.
AllWorlds ==
    [place : {Straight}, node : {n \in [Names -> Node \cup {"none"}] : n["a/b"] = "none"}, changes : {0}]
    \cup [place : {Linked}, node : {n \in [Names -> Node \cup {"none"}] : {n["a/b"], n["b"]} = {"none"}}, changes : {0}]
    \cup [place : {Straight, Linked},
          node : {[n \in Names |-> CASE n = "a" -> "file 1" [] n = "b" -> "file 2" [] OTHER -> "none"]},
          changes : {2}]
=============================================================================
