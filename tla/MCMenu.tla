------------------------------- MODULE MCMenu -------------------------------
(***************************************************************************)
(* The menu, the programs it starts and the statistics, for TLC.           *)
(***************************************************************************)
EXTENDS Menu

\* Programs with up to two arguments of lengths around a multiple of 4; every
\* way a line is refused; the empty line; a call of the file system; panic and
\* quit.
Word(l) == [name |-> "w", len |-> l]
Cmd(c) == [name |-> c, len |-> 1]

MCLines ==
  {<<Cmd("p"), Word(3)>>}
    \cup {<<Cmd("p"), Word(3), Word(l), Word(m)>> : l \in 2..4, m \in 3..4}
    \cup {<<>>, <<Cmd("p")>>, <<Cmd("s")>>, <<Cmd("s"), Word(2)>>, <<Cmd("x")>>, <<Cmd("q")>>,
          <<Cmd("panic")>>, <<Cmd("cd")>>, <<Cmd("cd"), Word(2)>>,
          <<Cmd("p"), Word(1), Word(1), Word(1), Word(1)>>}
=============================================================================
