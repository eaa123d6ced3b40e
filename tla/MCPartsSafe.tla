----------------------------- MODULE MCPartsSafe -----------------------------
\* Parts of the gateway that share no state, each on a small instance, in one run: every
\* behaviour is one of ConfirmSlots, LedgerWrites, SandboxPool, HistoryThreads or
\* HistoryKeys; the others stay as they start.
EXTENDS ConfirmSlots, MCLedgerWrites, SandboxPool, HistoryThreads, HistoryKeys, TLC

VARIABLE part
Parts == {"slots", "ledger", "sandbox", "chats", "keys"}

PartsInit == part \in Parts /\ SlotInit /\ LedgerInit /\ PoolInit /\ HistoryInit /\ KeysInit

PartsNext ==
  /\ UNCHANGED part
  /\ \/ part = "slots" /\ SlotNext /\ UNCHANGED <<ledgerVars, boxVars, historyVars, keyVars>>
     \/ part = "ledger" /\ LedgerNext /\ UNCHANGED <<slotVars, boxVars, historyVars, keyVars>>
     \/ part = "sandbox" /\ PoolNext /\ UNCHANGED <<slotVars, ledgerVars, historyVars, keyVars>>
     \/ part = "chats" /\ HistoryNext /\ UNCHANGED <<slotVars, ledgerVars, boxVars, keyVars>>
     \/ part = "keys" /\ KeysNext /\ UNCHANGED <<slotVars, ledgerVars, boxVars, historyVars>>

PartsSpec == PartsInit /\ [][PartsNext]_<<slotVars, ledgerVars, boxVars, historyVars, keyVars, part>>

\* Every part's state has its type.
PartsTypeOK == SlotTypeOK /\ LedgerTypeOK /\ PoolTypeOK /\ HistoryTypeOK /\ KeysTypeOK

\* Two calls are alike to every part that has them, as calls, granted calls or turns.
Symmetry == Permutations(Grants)

=============================================================================
