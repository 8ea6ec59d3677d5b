------------------------------- MODULE MCScanner -------------------------------
(***************************************************************************)
(* Two roots, the second inside a folder of the first. Pages of up to      *)
(* three children with batches of two: the folder d1 is the third item of  *)
(* its page and its checkpoint is committed before it is.                  *)
(***************************************************************************)
EXTENDS Scanner, TLC

CONSTANTS r1, r2, d1, d2, a, b, t, u, x, y

TreeFiles == {r1, r2, d1, d2, a, b, t, u, x, y}
TreeRoots == <<r1, r2>>
Empty == <<<<>>>>
TreePages == [f \in TreeFiles |->
  CASE f = r1 -> <<<<a, b, d1>>, <<d2, t>>>>
    [] f = d1 -> <<<<r2>>, <<x>>>>
    [] f = d2 -> <<<<y>>>>
    [] f = t  -> <<<<u>>>>
    [] OTHER  -> Empty]
Mine == [trashed |-> FALSE, shared |-> FALSE, owners |-> {"source"}, kind |-> "folder"]
TreeLook == [f \in TreeFiles |->
  CASE f \in {r1, r2, d1, d2} -> Mine
    [] f = t -> [Mine EXCEPT !.trashed = TRUE]
    [] f = a -> [Mine EXCEPT !.owners = {"source", "target"}]
    [] f = b -> [Mine EXCEPT !.kind = "shortcut"]
    [] OTHER -> [Mine EXCEPT !.kind = "file"]]
================================================================================
