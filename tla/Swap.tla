-------------------------------- MODULE Swap --------------------------------
(***************************************************************************)
(* The order book of fsm/swap.go and its message handlers: a seller offers *)
(* tokens of the root chain, which wait in escrow, for tokens of the       *)
(* nested chain.  Buyers act on the nested chain only, by payments with a  *)
(* command in the memo; the nested chain's committee reads the root's book *)
(* and reports locks, resets and closes in its certificates.               *)
(*                                                                         *)
(* A book is a record: the orders by id, the escrow pool, the accounts,    *)
(* and two histories of what was closed and what was reset.                *)
(***************************************************************************)
EXTENDS Integers, Sequences, SequencesExt, FiniteSets, Functions

CONSTANTS
  OrderIds,
  Sellers,
  Buyers,
  MinimumOrderSize,
  BuyDeadlineBlocks,
  RereadFrom,       \* blocks N - RereadFrom up to, not including, N - RereadTo are parsed again
  RereadTo

NoBuyer == "none"

Without(f, id) == Restrict(f, DOMAIN f \ {id})

With(f, id, x) == [i \in DOMAIN f \cup {id} |-> IF i = id THEN x ELSE f[i]]

Open(order) == [order EXCEPT !.buyer = NoBuyer, !.deadline = 0]

----------------------------------------------------------------------------
(* The seller's messages                                                     *)

MayCreate(b, seller, amount) == amount >= MinimumOrderSize /\ b.accounts[seller] >= amount

CreateOrder(b, id, seller, amount, requested) ==
  [b EXCEPT !.accounts[seller] = @ - amount, !.escrow = @ + amount,
            !.orders = With(@, id, [seller |-> seller, amount |-> amount, requested |-> requested,
                                    buyer |-> NoBuyer, deadline |-> 0])]

\* Wrong: the price may change under a buyer who has locked the order.
MayEditLocked(b, id, amount) ==
  /\ amount >= MinimumOrderSize
  /\ b.accounts[b.orders[id].seller] + b.orders[id].amount >= amount

MayEdit(b, id, amount) ==
  /\ b.orders[id].buyer = NoBuyer
  /\ amount >= MinimumOrderSize
  /\ b.accounts[b.orders[id].seller] + b.orders[id].amount >= amount

EditOrder(b, id, amount, requested) ==
  LET more == amount - b.orders[id].amount
  IN  [b EXCEPT !.accounts[b.orders[id].seller] = @ - more, !.escrow = @ + more,
                !.orders[id].amount = amount, !.orders[id].requested = requested]

MayDelete(b, id) == b.orders[id].buyer = NoBuyer

\* Wrong: the escrow is left as it is.
EscrowAfterDeleteKept(b, id) == b.escrow

EscrowAfterDelete(b, id) == b.escrow - b.orders[id].amount

DeleteOrder(b, id) ==
  [b EXCEPT !.accounts[b.orders[id].seller] = @ + b.orders[id].amount,
            !.escrow = EscrowAfterDelete(b, id), !.orders = Without(@, id)]

----------------------------------------------------------------------------
(* What a certificate does to the book.  A command that fails is skipped.    *)

LockOrder(b, lock) ==
  IF lock.id \notin DOMAIN b.orders \/ b.orders[lock.id].buyer # NoBuyer THEN b
  ELSE [b EXCEPT !.orders[lock.id].buyer = lock.buyer, !.orders[lock.id].deadline = lock.deadline]

ResetOrder(b, id) ==
  IF id \notin DOMAIN b.orders THEN b
  ELSE [b EXCEPT !.orders[id] = Open(@), !.resets = @ \cup {<<id, b.orders[id].deadline>>}]

CloseOrder(b, id) ==
  IF id \notin DOMAIN b.orders THEN b
  ELSE LET o == b.orders[id]
       IN  IF o.buyer = NoBuyer \/ b.escrow < o.amount THEN b
           ELSE [b EXCEPT !.escrow = @ - o.amount, !.accounts[o.buyer] = @ + o.amount,
                          !.orders = Without(@, id), !.closes = @ \cup {[id |-> id, order |-> o]}]

\* The set of commands is applied in any order of ids: each concerns one order.
HandleCommitteeSwaps(b, orders) ==
  LET Apply(op(_, _), book, commands) == FoldLeft(op, book, commands)
      resets == SelectSeq(orders.resets, LAMBDA id : ~Contains(orders.closes, id))
  IN  Apply(CloseOrder, Apply(ResetOrder, Apply(LockOrder, b, orders.locks), resets), orders.closes)

----------------------------------------------------------------------------
(* The buyer's side, on the nested chain: a block is a sequence of payments  *)
(* [kind, id, from, to, amount], the kind being the command in the memo.     *)

\* The proposal's block first, then the blocks that are parsed again
ParsedBlocks(blocks) ==
  LET n == Len(blocks)
      again == IF n <= RereadFrom THEN <<>> ELSE SubSeq(blocks, n - RereadFrom, n - RereadTo - 1)
  IN  Last(blocks) \o FlattenSeq(again)

ValidClose(send, order) ==
  send.amount = order.requested /\ send.from = order.buyer /\ send.to = order.seller

Expired(order, height) == height > order.deadline

\* The first lock seen wins; an expired lock is reset even if it was paid
ProcessRootChainOrderBook(orders, blocks) ==
  LET height == Len(blocks)
      sends == ParsedBlocks(blocks)
      Of(kind, id) == SelectSeq(sends, LAMBDA s : s.kind = kind /\ s.id = id)
      ids == SetToSeq(DOMAIN orders)
      locked(id) == orders[id].buyer # NoBuyer
      locks == SelectSeq(ids, LAMBDA id : ~locked(id) /\ Of("lock", id) # <<>>)
  IN  [locks |-> [i \in DOMAIN locks |-> [id |-> locks[i], buyer |-> Of("lock", locks[i])[1].from,
                                          deadline |-> height + BuyDeadlineBlocks]],
       resets |-> SelectSeq(ids, LAMBDA id : locked(id) /\ Expired(orders[id], height)),
       closes |-> SelectSeq(ids, LAMBDA id : locked(id) /\ ~Expired(orders[id], height) /\
                                   \E s \in ToSet(Of("close", id)) : ValidClose(s, orders[id]))]
=============================================================================
