---------------------------- MODULE RetryBudget -----------------------------
(***************************************************************************)
(* The retry budget of the sync engine.  retryFailed() escalates a row     *)
(* whose retryCount has reached MAX_RETRIES to a dead letter, "so the      *)
(* periodic loop stops hammering it" (durableSyncQueue.ts:1055).  The      *)
(* count is part of the row, and rows are rewritten from copies; this      *)
(* module counts beside the rows, with a history of BackgroundSync's steps *)
(* that restricts none of them, how often the cycle has really sent a row  *)
(* in vain since the user last asked for it.                               *)
(***************************************************************************)
EXTENDS BackgroundSync

VARIABLES
  attempts,  \* history: failed sends of a row by the cycle since the user asked
  rewound    \* history: rows whose attempts a write of enqueue() has forgotten

budgetVars == <<vars, attempts, rewound>>

BudgetInit ==
  /\ Init
  /\ attempts = [r \in Rows |-> 0]
  /\ rewound = {}

-----------------------------------------------------------------------------
\* The row the cycle settles in this step, if its send failed.
FailedNow == {r \in cycle.todo : SettlePut /\ Oldest(r, cycle.todo) /\ cycle.result[r] # "ok"}

\* The rows the user asks for in this step: by retrying a dead letter, by
\* saving the order (the inline flush), by logging in again.
AskedNow ==
  {r \in Rows :
     \/ \E m \in Upkeep : UpkeepPut(m) /\ upkeep[m].row = r /\ upkeep[m].value.status = "pending"
     \/ \E x \in FlushRecords : FlushMark(x) /\ flush[x].row = r
     \/ \E u \in Logins : LoginPut(u) /\ r \in login[u].todo \ login'[u].todo}

\* The row enqueue() writes in this step, if the copy it read is older than an
\* attempt: it has a lower count, or is pending although every attempt is used.
ForgottenNow ==
  {r \in Rows : \E w \in Writers :
     /\ EnqueueReturn(w)
     /\ enqueues[w].target = r
     /\ \/ enqueues[w].value.retries < attempts[r]
        \/ enqueues[w].value.status = "pending" /\ attempts[r] = MaxRetries}

Record ==
  /\ attempts' = [r \in Rows |-> IF r \in AskedNow THEN 0
                                 ELSE IF r \in FailedNow /\ attempts[r] < MaxRetries
                                      THEN attempts[r] + 1 ELSE attempts[r]]
  /\ rewound' = (rewound \cup ForgottenNow) \ AskedNow

BudgetNext == Next /\ Record

BudgetSpec == BudgetInit /\ [][BudgetNext]_budgetVars

-----------------------------------------------------------------------------
\* The cycle sends a row at most MaxRetries times in vain until the user asks
\* again, whatever copies of it retryFailed(), dequeue(), the settlements, the
\* upkeep calls, the inline flushes, logins and restarts write back; the one
\* exception is a row whose older copy an enqueue() has written over it.
BudgetRespected ==
  cycle.pc = "send" => \A r \in cycle.batch : attempts[r] < MaxRetries \/ r \in rewound
=============================================================================
