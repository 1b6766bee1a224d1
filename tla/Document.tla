------------------------------- MODULE Document -------------------------------
(***************************************************************************)
(* The document of a page: a sequence of blocks, some of which embed a     *)
(* table.  The collaboration service edits it with patches, sequences of   *)
(* operations that apply all or not at all; the page service extracts its  *)
(* table references and fills in what it could fetch of each table.        *)
(*                                                                         *)
(* A block is [id, table, content].  The content stands for the text, the  *)
(* attributes and the display configuration.  Nothing makes the ids of the *)
(* blocks distinct.  Positions count from 1 here and from 0 in operations. *)
(***************************************************************************)
EXTENDS Integers, SequencesExt

CONSTANT NoTable   \* table of a block without an embed

(* The position of the first block with an id, 0 when there is none. *)
BlockIndex(blocks, id) == SelectInSeq(blocks, LAMBDA b : b.id = id)

HasField(op, field) == field \in DOMAIN op

(* Where insert_block puts its block: at the index, else after the block, *)
(* else at the end.  A block that does not exist is out of range.         *)
InsertAtPosition(blocks, op) ==
    CASE HasField(op, "index") -> op.index + 1
      [] ~HasField(op, "index") /\ HasField(op, "after_block_id") ->
            IF BlockIndex(blocks, op.after_block_id) = 0 THEN 0
            ELSE BlockIndex(blocks, op.after_block_id) + 1
      [] OTHER -> Len(blocks) + 1

(* Is the operation valid?  An operation of another kind, or one whose *)
(* value does not have the shape it needs, never is.                   *)
ValidOp(blocks, op) ==
    CASE op.op = "insert_block" ->
            InsertAtPosition(blocks, op) \in 1 .. Len(blocks) + 1
      [] op.op = "move_block" ->
            /\ BlockIndex(blocks, op.block_id) # 0
            /\ op.to_index \in 0 .. Len(blocks) - 1
      [] op.op \in {"replace_block", "delete_block"} ->
            BlockIndex(blocks, op.block_id) # 0
      [] OTHER -> FALSE

(* Mutant of ApplyOp: the position after the block is deleted. *)
ApplyOpDeletingNext(blocks, op) ==
    LET at == BlockIndex(blocks, op.block_id) IN
    CASE op.op = "insert_block" ->
            InsertAt(blocks, InsertAtPosition(blocks, op), op.block)
      [] op.op = "replace_block" -> [blocks EXCEPT ![at].content = op.content]
      [] op.op = "move_block" ->
            InsertAt(RemoveAt(blocks, at), op.to_index + 1, blocks[at])
      [] op.op = "delete_block" -> RemoveAt(blocks, at + 1)

(* The blocks after a valid operation.  replace_block stands for the three *)
(* operations that replace the text, the attributes or the configuration.  *)
ApplyOp(blocks, op) ==
    LET at == BlockIndex(blocks, op.block_id) IN
    CASE op.op = "insert_block" ->
            InsertAt(blocks, InsertAtPosition(blocks, op), op.block)
      [] op.op = "replace_block" -> [blocks EXCEPT ![at].content = op.content]
      [] op.op = "move_block" ->
            InsertAt(RemoveAt(blocks, at), op.to_index + 1, blocks[at])
      [] op.op = "delete_block" -> RemoveAt(blocks, at)

(* The operations one after the other, each on what the ones before left. *)
ApplyPatch(document, ops) ==
    LET after[n \in 0 .. Len(ops)] ==
          IF n = 0 THEN [ok |-> TRUE, blocks |-> document]
          ELSE IF after[n - 1].ok /\ ValidOp(after[n - 1].blocks, ops[n])
               THEN [ok |-> TRUE, blocks |-> ApplyOp(after[n - 1].blocks, ops[n])]
               ELSE [ok |-> FALSE, blocks |-> <<>>]
    IN after[Len(ops)]

(* The blocks that are in S, in their order. *)
BlocksIn(blocks, S) ==
    LET chosen[n \in 0 .. Len(blocks)] ==
          IF n = 0 THEN <<>>
          ELSE IF blocks[n] \in S THEN Append(chosen[n - 1], blocks[n])
          ELSE chosen[n - 1]
    IN chosen[Len(blocks)]

(* The references to tables, in the order of the blocks. *)
ExtractReferences(blocks) ==
    BlocksIn(blocks, {b \in Range(blocks) : b.table # NoTable})

DocumentContainsEmbed(blocks) == \E i \in DOMAIN blocks : blocks[i].table # NoTable

(* The blocks with what was found of their tables.  A descriptor is looked *)
(* up by the id of the block.  The others keep their bare embed.           *)
HydrateEmbeds(blocks, descriptors, bare) ==
    [i \in DOMAIN blocks |->
       IF blocks[i].id \in DOMAIN descriptors THEN descriptors[blocks[i].id]
       ELSE bare]
===============================================================================
