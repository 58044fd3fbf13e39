---------------------------- MODULE NextIPReserve ----------------------------
(***************************************************************************)
(* NextIP of proxy/dns_pool.go as its concurrent callers execute it: look  *)
(* for an address set aside by a batch (reservedMu), decide whether the    *)
(* call belongs to a burst (concurrentMu), draw eight addresses and set    *)
(* them aside or draw one (mu, released and taken again).  The three locks *)
(* are never held together, so other calls run between those steps.        *)
(*                                                                         *)
(* Time is left out: a call may find the addresses set aside expired (500  *)
(* ms) and the last call outside of the window (200 ms) whenever there are *)
(* any, as both only take waiting.                                         *)
(***************************************************************************)
EXTENDS DNSPool

CONSTANTS
    Callers,           \* the goroutines that call NextIP for the domain
    NoIP               \* the empty address a failed call returns

ASSUME NoIPIsNone == NoIP \notin IPs

BatchSize == 8

VARIABLES
    reserved,          \* reservedIPPool: the addresses set aside, in order
    asked,             \* concurrentRequests has an entry for the domain
    call,              \* where each caller is, and what it holds
    reloaded           \* history: the file was loaded again

vars == <<rec, reserved, asked, call, reloaded>>

Steps == {"idle", "reserve", "window", "find8", "take8", "store", "find1",
          "take1", "done"}

Idle == [at |-> "idle", batch |-> <<>>, ip |-> NoIP]

ReserveInit ==
    /\ Init
    /\ reserved = <<>>
    /\ asked = FALSE
    /\ call = [c \in Callers |-> Idle]
    /\ reloaded = FALSE

-----------------------------------------------------------------------------
Goto(c, from, to) == call[c].at = from /\ call' = [call EXCEPT ![c].at = to]

Return(c, from, ip) ==
    call[c].at = from /\ call' = [call EXCEPT ![c] = [Idle EXCEPT !.at = "done", !.ip = ip]]

CallNextIP(c) == Goto(c, "idle", "reserve") /\ UNCHANGED <<rec, reserved, asked>>

(* The first address set aside is handed out, whatever was reported of it  *)
(* since.                                                                  *)
PopReserved(c) ==
    /\ reserved # <<>>
    /\ Return(c, "reserve", Head(reserved))
    /\ reserved' = Tail(reserved)
    /\ UNCHANGED <<rec, asked>>

(* No address is set aside, or all have expired and are dropped.           *)
MissReserved(c) ==
    /\ Goto(c, "reserve", "window")
    /\ reserved' = <<>>
    /\ UNCHANGED <<rec, asked>>

(* The first call for the domain and one close to the last draw a batch.   *)
CheckWindow(c) ==
    /\ \/ Goto(c, "window", "find8")
       \/ asked /\ Goto(c, "window", "find1")
    /\ asked' = TRUE
    /\ UNCHANGED <<rec, reserved>>

(* A missing record is resolved first (resolveAndStoreQuick).              *)
FindRecord(c, from, to) ==
    /\ Goto(c, from, to)
    /\ \/ rec # NoRecord /\ UNCHANGED rec
       \/ rec = NoRecord /\ \E answer \in DNSAnswers : Save(answer)
    /\ UNCHANGED <<reserved, asked>>

(* ... and the call fails if it cannot be, or has gone again.              *)
NoRecordFound(from) == from \in {"find8", "take8", "find1", "take1"} /\ rec = NoRecord

TakeBatch(c) ==
    /\ call[c].at = "take8"
    /\ rec # NoRecord
    /\ \E r \in Listing(rec, rec.white) : \E cands \in Candidates(r) :
          /\ Take(r, cands, BatchSize)
          /\ call' = [call EXCEPT ![c].at = "store",
                                  ![c].batch = HandOut(cands, r.idx, BatchSize)]
    /\ UNCHANGED <<reserved, asked>>

(* Mutant of BatchFails: the call starts again instead of drawing one.     *)
BatchRetries(c) ==
    /\ \/ NoRecordFound(call[c].at) /\ UNCHANGED rec
       \/ call[c].at = "take8" /\ NextIPsFails
    /\ \/ Goto(c, "find8", "reserve")
       \/ Goto(c, "take8", "reserve")
    /\ UNCHANGED <<reserved, asked>>

(* A batch that cannot be drawn is no error: the call draws one address.   *)
BatchFails(c) ==
    /\ \/ NoRecordFound(call[c].at) /\ UNCHANGED rec
       \/ call[c].at = "take8" /\ NextIPsFails
    /\ \/ Goto(c, "find8", "find1")
       \/ Goto(c, "take8", "find1")
    /\ UNCHANGED <<reserved, asked>>

(* The whole batch is set aside, in place of any other, and its first      *)
(* address returned as well.                                               *)
StoreBatch(c) ==
    /\ Return(c, "store", call[c].batch[1])
    /\ reserved' = call[c].batch
    /\ UNCHANGED <<rec, asked>>

TakeOne(c) ==
    /\ rec # NoRecord
    /\ \E r \in Listing(rec, rec.white) : \E cands \in Candidates(r) :
          /\ Take(r, cands, 1)
          /\ Return(c, "take1", HandOut(cands, r.idx, 1)[1])
    /\ UNCHANGED <<reserved, asked>>

OneFails(c) ==
    /\ \/ NoRecordFound(call[c].at) /\ UNCHANGED rec
       \/ call[c].at = "take1" /\ NextIPsFails
    /\ \/ Return(c, "find1", NoIP)
       \/ Return(c, "take1", NoIP)
    /\ UNCHANGED <<reserved, asked>>

Resume(c) ==
    /\ call[c].at = "done"
    /\ call' = [call EXCEPT ![c] = Idle]
    /\ UNCHANGED <<rec, reserved, asked>>

(* The steps of a call between the two ends its caller decides about.      *)
Inside(c) ==
    \/ PopReserved(c)
    \/ MissReserved(c)
    \/ CheckWindow(c)
    \/ FindRecord(c, "find8", "take8")
    \/ TakeBatch(c)
    \/ BatchFails(c)
    \/ StoreBatch(c)
    \/ FindRecord(c, "find1", "take1")
    \/ TakeOne(c)
    \/ OneFails(c)

(* What the rest of the program does to the record meanwhile.              *)
Reload ==
    /\ HotReload
    /\ reloaded' = TRUE
    /\ UNCHANGED <<reserved, asked, call>>

Elsewhere ==
    /\ \/ \E answer \in DNSAnswers : Save(answer)
       \/ \E ip \in IPs, status \in Statuses : ReportResult(ip, status)
       \/ ReportLatency
       \/ \E offer \in PeerOffers : MergeFromPeer(offer)
    /\ UNCHANGED <<reserved, asked, call>>

ReserveNext ==
    \/ Reload
    \/ (\/ \E c \in Callers : CallNextIP(c) \/ Inside(c) \/ Resume(c)
        \/ Elsewhere) /\ UNCHANGED reloaded

(* A call is a goroutine: the scheduler runs it to its end.                *)
ReserveSpec ==
    ReserveInit /\ [][ReserveNext]_vars /\ \A c \in Callers : WF_vars(Inside(c) /\ UNCHANGED reloaded)

-----------------------------------------------------------------------------
(* Whatever calls drew, replaced, dropped and popped, the addresses set    *)
(* aside are the rest of one batch: none comes back before each of the     *)
(* others has had its turn (dns_pool.go:857).                              *)
ReserveEven ==
    \A i, j \in DOMAIN reserved :
        (i < j /\ j - i < Cardinality(Elements(reserved))) => reserved[i] # reserved[j]

(* A call returns an address that is listed for the domain, from a batch   *)
(* however old too, until the file is loaded again: nothing drops what is  *)
(* set aside then.                                                         *)
ReturnsListed ==
    [][\A c \in Callers : (call'[c].at = "done" /\ call[c].at # "done" /\ ~reloaded) =>
          call'[c].ip \in KnownIPs(Current') \cup {NoIP}]_vars

(* Bursts leave no call hanging, a domain with all addresses banned and    *)
(* one that does not resolve included.                                     *)
EveryCallReturns ==
    \A c \in Callers : call[c].at = "reserve" ~> call[c].at = "done"
=============================================================================
