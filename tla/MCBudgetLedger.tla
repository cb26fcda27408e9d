--------------------------- MODULE MCBudgetLedger ---------------------------
(***************************************************************************)
(* An instance of BudgetLedger for TLC: an allocation, appended again by a *)
(* device and with another amount, and two reversals of it; three          *)
(* consumptions of one landing cost, one of them without a snapshot, and   *)
(* three corrections; an outbound consumption and two reversals of it.     *)
(* Transactions are interchangeable model values.                          *)
(***************************************************************************)
EXTENDS BudgetLedger, TLC

Draft(id, key, via, kind, amount, target, source, snapshot) ==
  [id |-> id, key |-> key, kind |-> kind, amount |-> amount, target |-> target,
   source |-> source, snapshot |-> snapshot, via |-> via]

MCDrafts == {
  Draft("a",  "sale",  "rpc",     "SALES_ALLOCATION",       2, None, None,   0),
  Draft("a2", "sale",  "gateway", "SALES_ALLOCATION",       2, None, None,   0),
  Draft("a3", "sale",  "rpc",     "SALES_ALLOCATION",       1, None, None,   0),
  Draft("r",  "void",  "rpc",     "REVERSAL",               2, "a",  None,   0),
  Draft("r2", "part",  "gateway", "REVERSAL",               1, "a",  None,   0),
  Draft("i",  "grn",   "rpc",     "INBOUND_CONSUMPTION",    2, None, "cost", 2),
  Draft("i2", "grn2",  "gateway", "INBOUND_CONSUMPTION",    1, None, "cost", 2),
  Draft("i3", "grn3",  "gateway", "INBOUND_CONSUMPTION",    1, None, "cost", 0),
  Draft("c",  "corr",  "gateway", "CONSUMPTION_CORRECTION", 1, "i",  None,   2),
  Draft("c2", "corr2", "rpc",     "CONSUMPTION_CORRECTION", 2, "i",  None,   2),
  Draft("c3", "corr3", "rpc",     "CONSUMPTION_CORRECTION", 1, "i2", None,   2),
  Draft("o",  "trip",  "gateway", "OUTBOUND_CONSUMPTION",   1, None, None,   0),
  Draft("v",  "back",  "rpc",     "CONSUMPTION_REVERSAL",   1, "o",  None,   0),
  Draft("v2", "back2", "gateway", "CONSUMPTION_REVERSAL",   1, "o",  None,   0)}

MCIds == {d.id : d \in MCDrafts}
MCKeys == {d.key : d \in MCDrafts}

Interchangeable == Permutations(Txs)
=============================================================================
