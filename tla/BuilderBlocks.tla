--------------------------- MODULE BuilderBlocks ---------------------------
(***************************************************************************)
(* Nokolexbor::Builder (builder.rb): the node that receives new children   *)
(* while blocks are entered, left, left by exceptions and resumed after a  *)
(* rescue in an outer block.                                               *)
(*                                                                         *)
(* What the blocks do is left open: any sequence of calls on the builder,  *)
(* on a NodeBuilder kept from an earlier call, of raise and of rescue.     *)
(***************************************************************************)
EXTENDS Naturals, Sequences, SequencesExt

CONSTANTS
  BuiltNodes,  \* bound: how many nodes are made
  BlockDepth   \* bound: how deep blocks are nested

VARIABLES
  parent,     \* @parent
  owner,      \* of every node made, in order, the node it was added to
  blocks,     \* the blocks that are open, the innermost last
  arity,      \* @arity: "unset", "bare" (instance_eval) or "yield"
  unwinding   \* whether an exception is looking for a rescue

builderVars == <<parent, owner, blocks, arity, unwinding>>

\* The document fragment, or the node given to Builder.with.
Root == 0

\* A block: whose it is, the node it is about, what @parent was before it; ghost:
\* whether an exception left a chained block in it.
Opened(form, node, old) == [form |-> form, node |-> node, old |-> old, left |-> FALSE]

\* The code around the builder, and the block of Builder.new if there is one.
BInit ==
  /\ parent = Root
  /\ owner = <<>>
  /\ unwinding = FALSE
  /\ \/ blocks = <<Opened("outside", Root, Root)>> /\ arity = "unset"
     \/ /\ blocks = <<Opened("outside", Root, Root), Opened("initialize", Root, Root)>>
        /\ arity \in {"bare", "yield"}

Innermost == Last(blocks)

BuiltNode == 1 .. Len(owner)

-----------------------------------------------------------------------------
\* text, cdata, comment, a tag without a block: @parent.add_child(node).
Insert ==
  /\ ~unwinding
  /\ Len(owner) < BuiltNodes
  /\ owner' = Append(owner, parent)
  /\ UNCHANGED <<parent, blocks, arity, unwinding>>

\* <<: the nodes of a text that is parsed.
InsertParsed ==
  /\ ~unwinding
  /\ Len(owner) + 2 <= BuiltNodes
  /\ owner' = owner \o <<parent, parent>>
  /\ UNCHANGED <<parent, blocks, arity, unwinding>>

\* A tag with a block: the node is added, and is the parent in the block.  The first
\* block decides for all how they are called.
InsertWithBlock ==
  /\ ~unwinding
  /\ Len(owner) < BuiltNodes /\ Len(blocks) < BlockDepth
  /\ owner' = Append(owner, parent)
  /\ blocks' = Append(blocks, Opened("insert", Len(owner'), parent))
  /\ parent' = Len(owner')
  /\ IF arity = "unset" THEN arity' \in {"bare", "yield"} ELSE arity' = arity
  /\ unwinding' = unwinding

\* A class or an id with a block, div.container { ... }, on the NodeBuilder of a tag
\* just made or on one that was kept.
ChainWithBlock ==
  /\ ~unwinding
  /\ Len(blocks) < BlockDepth
  /\ \E node \in BuiltNode :
       /\ blocks' = Append(blocks, Opened("chain", node, parent))
       /\ parent' = node
  /\ UNCHANGED <<owner, arity, unwinding>>

-----------------------------------------------------------------------------
\* Variant of Restored: insert does without ensure.
RestoredOnReturn(b, raised) == IF b.form = "initialize" \/ raised THEN parent ELSE b.old

\* @parent after a block: insert puts it back in any case, a NodeBuilder only when
\* the block returns.
Restored(b, raised) ==
  IF b.form = "initialize" \/ (raised /\ b.form = "chain") THEN parent ELSE b.old

\* What the block around it is then.
Left(b, raised) ==
  (b.form = "chain" /\ raised) \/ (b.form = "initialize" /\ b.left)

Leave(raised) ==
  LET b == Innermost
      outer == Front(blocks)
  IN /\ parent' = Restored(b, raised)
     /\ blocks' = [outer EXCEPT ![Len(outer)].left = @ \/ Left(b, raised)]
     /\ UNCHANGED <<owner, arity, unwinding>>

BlockReturns == ~unwinding /\ Len(blocks) > 1 /\ Leave(FALSE)

\* Anything a block calls may raise.
Raise ==
  /\ ~unwinding
  /\ unwinding' = TRUE
  /\ UNCHANGED <<parent, owner, blocks, arity>>

\* The exception leaves the innermost block.
Unwind == unwinding /\ Len(blocks) > 1 /\ Leave(TRUE)

\* The code of a block, or around the builder, goes on after the call that raised.
Rescue ==
  /\ unwinding
  /\ unwinding' = FALSE
  /\ UNCHANGED <<parent, owner, blocks, arity>>

BNext ==
  \/ Insert \/ InsertParsed \/ InsertWithBlock \/ ChainWithBlock
  \/ BlockReturns \/ Raise \/ Unwind \/ Rescue

BSpec == BInit /\ [][BNext]_builderVars

-----------------------------------------------------------------------------
\* What is built in a block goes below the block's node, also after blocks in it were
\* left by exceptions that it rescued; and the block around gets its own node back
\* (Builder#insert).  Only a chained block that an exception left (NodeBuilder has no
\* ensure) takes this from the block it is in, until that one ends.
BuiltInItsBlock ==
  /\ ~unwinding /\ ~Innermost.left => parent = Innermost.node
  /\ \A i \in 2 .. Len(blocks) :
       ~blocks[i - 1].left /\ blocks[i].form # "initialize" => blocks[i].old = blocks[i - 1].node
=============================================================================
