------------------------------- MODULE MCEmbeds -------------------------------
(* Embeds on small instances. *)
EXTENDS Embeds

CONSTANTS x, y, t, u

Block(id, table) == [id |-> id, table |-> table, content |-> 0]

(* One embed, two of two tables, and one id twice. *)
MCDocuments ==
    {<<Block(x, NoTable), Block(y, t)>>,
     <<Block(x, t), Block(y, u)>>,
     <<Block(x, t), Block(x, NoTable)>>}

Replace(id) == [op |-> "replace_block", block_id |-> id, content |-> 1]
Delete(id) == [op |-> "delete_block", block_id |-> id]
Move(id, to) == [op |-> "move_block", block_id |-> id, to_index |-> to]
Insert(block) == [op |-> "insert_block", block |-> block]

(* Every operation, alone and after another; the invalid ones too. *)
MCPatches ==
    {<<Replace(y)>>, <<Delete(x)>>, <<Move(x, 1)>>, <<Move(y, 2)>>,
     <<Insert(Block(y, u))>>,
     <<Insert(Block(x, u)) @@ [index |-> 0]>>,
     <<Insert(Block(x, u)) @@ [index |-> 3]>>,
     <<Delete(x), Insert(Block(x, t)) @@ [after_block_id |-> y]>>,
     <<Delete(y), Insert(Block(y, t)) @@ [after_block_id |-> y]>>,
     <<Move(y, 0), Delete(y)>>,
     <<Replace(x), [op |-> "other", block_id |-> x]>>}

Symmetry == Permutations(Requests)
===============================================================================
