------------------------------ MODULE MCConnection ------------------------------
EXTENDS Connection

\* Two commands of the longest size that fits, a delete with a CR LF ending, a
\* read of the value "(nil)", lines that do not parse, a line too long, and a
\* blank value, an empty key and a second carriage return.
MCStreams ==
    { <<"SET", SP, "k", SP, "a", LF, "get", SP, "k", LF>>,
      <<"SET", SP, "k", SP, "(nil)", LF, "DEL", SP, "k", CR, LF, "DEL", SP, "k", LF>>,
      <<SP, LF, "GET", LF, "k", LF, "GET", SP, "k", LF>>,
      <<"SET", SP, "k", SP, "a", LF, "SET", SP, "k", SP, "b", "c", LF, "DEL", SP, "k", LF>>,
      <<"set", SP, "k", SP, SP, LF, "del", SP, SP, LF, "get", SP, "k", CR, CR, LF>> }

\* One SET with a value of two atoms.
TruncatedStreams == { <<"SET", SP, "k", SP, "al", "ice", LF>> }

================================================================================
