----------------------------- MODULE AuditChain -----------------------------
(***************************************************************************)
(* The chained audit log of a session (src/audit/hmacChain.js) and the     *)
(* verification of an exported one (src/audit/verifyAudit.js).  Pure       *)
(* operators: no state.                                                    *)
(*                                                                         *)
(* An HMAC is the tuple of its key and of what it signs: equal only when   *)
(* both are.  The payload of an entry is left out; its type stands for it. *)
(***************************************************************************)
EXTENDS Integers, Sequences

CONSTANT ChainCap     \* entries a chain keeps (5000 in the code)

ASSUME ChainCapAssumption == ChainCap \in Nat \ {0}

Genesis == <<"GENESIS">>

Sign(key, seq, type, prev) == <<key, seq, type, prev>>

Entry(key, seq, type, prev) ==
  [seq |-> seq, type |-> type, prev |-> prev, sig |-> Sign(key, seq, type, prev)]

NewChain == [prevHash |-> Genesis, entries |-> <<>>, truncated |-> FALSE]

(* Nothing is written once the chain is truncated; the first append over   *)
(* the cap only marks it.                                                  *)
AppendEntry(chain, key, type) ==
  IF chain.truncated THEN chain
  ELSE IF Len(chain.entries) >= ChainCap THEN [chain EXCEPT !.truncated = TRUE]
  ELSE LET e == Entry(key, Len(chain.entries), type, chain.prevHash)
       IN [chain EXCEPT !.entries = Append(@, e), !.prevHash = e.sig]

-----------------------------------------------------------------------------
(* Every entry is signed with the key over its own content and points at   *)
(* the signature of the entry before it, the first one at GENESIS.  The    *)
(* sequence numbers are covered by the signatures and not compared.        *)
VerifyChain(entries, key) ==
  \A i \in 1..Len(entries) :
     /\ entries[i].sig = Sign(key, entries[i].seq, entries[i].type, entries[i].prev)
     /\ entries[i].prev = IF i = 1 THEN Genesis ELSE entries[i - 1].sig

(* An export: its entries, its truncated flag and the number of entries it *)
(* declares, or -1 when it declares none.                                  *)
NoCount == -1

VerifyAuditExport(export, key) ==
  /\ VerifyChain(export.entries, key)
  /\ ~export.truncated
  /\ export.count = NoCount \/ export.count = Len(export.entries)

Types(chain) == [i \in 1..Len(chain.entries) |-> chain.entries[i].type]
=============================================================================
