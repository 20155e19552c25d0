--------------------------------- MODULE MCPage ---------------------------------
EXTENDS Page

\* Four labels, more than are remembered, and more slots than the small drawer
\* has; one line that does not parse and one that is blank.
MCLabels == {"a", "b", "c", "d"}

MCInputs ==
    {<<"SET", SP, k, SP, v>> : k \in MCLabels, v \in {"x", "y"}}
      \cup {<<"get", SP, k>> : k \in {"a", "d"}}
      \cup {<<"DEL", SP, k>> : k \in MCLabels}
      \cup {<<"DEL">>, <<SP>>}

================================================================================
