------------------------------- MODULE MCIrcp -------------------------------
(* The arguments and directories for model checking Ircp. *)
EXTENDS Ircp

File(name, chunks) == [kind |-> "file", name |-> name, chunks |-> chunks]
Dir(name, entries) == [kind |-> "dir", name |-> name, entries |-> entries]
Other == [kind |-> "other"]

MCHere == Dir("h", <<File("a", 1)>>)

(* A directory in another and a link; a directory of the name of a file   *)
(* and a socket; a directory, a file of its name and the directory again; *)
(* files one after the other, of which one is empty.                      *)
Deep == Dir("d", <<File("a", 2), Dir("e", <<File("b", 0)>>), Other>>)
Flat == Dir("d", <<File("a", 0)>>)

MCArgLists ==
  {<<Deep, File("c", 1)>>,
   <<File("d", 1), Flat, Other>>,
   <<Flat, File("d", 1), Flat>>,
   <<File("a", 2), File("b", 1), File("c", 0)>>}

MCNodes ==
  {Other, MCHere, Deep, Flat} \union {Deep.entries[k] : k \in 1..3}
  \union {File(name, chunks) : name \in {"a", "b", "c", "d"}, chunks \in 0..2}
=============================================================================
