----------------------------- MODULE DNSRotation -----------------------------
(***************************************************************************)
(* DNSPool together with what its rotation promises: "严格轮询：所有IP平均 *)
(* 分配，使用统一索引" (proxy/dns_pool.go:844), every address is served in *)
(* turn.  last is a history variable, the candidates a call last took from *)
(* and the position of the last one it took.                               *)
(***************************************************************************)
EXTENDS DNSPool

CONSTANT NoTurn        \* nothing was taken since the pool was loaded

ASSUME NoTurnIsNil == NoTurn \notin [cands : Seq(IPs), pos : Nat]

VARIABLE last

rotationVars == <<rec, last>>

RotationInit == Init /\ last = NoTurn

(* The file has an index of its own: a reload starts a new rotation.       *)
NewRotation == HotReload /\ last' = NoTurn

Serve(n) ==
    /\ rec # NoRecord
    /\ \E r \in Listing(rec, rec.white) : \E c \in Candidates(r) :
          /\ Take(r, c, n)
          /\ last' = [cands |-> c, pos |-> ((r.idx + n - 1) % Len(c)) + 1]

(* Everything else the pool does between two calls.                        *)
Other ==
    /\ \/ \E answer \in DNSAnswers : Save(answer)
       \/ NextIPsFails
       \/ \E ip \in IPs, status \in Statuses : ReportResult(ip, status)
       \/ ReportLatency
       \/ \E offer \in PeerOffers : MergeFromPeer(offer)
    /\ UNCHANGED last

RotationNext == NewRotation \/ (\E n \in Counts : Serve(n)) \/ Other

RotationSpec == RotationInit /\ [][RotationNext]_rotationVars

-----------------------------------------------------------------------------
(* As long as the candidates are the ones the last call took from, the     *)
(* next call gets the address after the last one served: what happened in  *)
(* between (a resolution above all) did not restart the rotation, "保留已有 *)
(* 索引，避免被解析刷新覆盖成0" (dns_pool.go:454).  This is so of a record  *)
(* without IPv6 addresses: with both families save compares the index with *)
(* the number of the IPv4 addresses alone (dns_pool.go:457), and restarts  *)
(* it.                                                                     *)
InTurn ==
    (/\ rec # NoRecord /\ rec.v6 = <<>>
     /\ last # NoTurn /\ last.cands \in Candidates(rec)) =>
        HandOut(last.cands, rec.idx, 1)[1]
            = last.cands[(last.pos % Len(last.cands)) + 1]

(* Any run of as many addresses as there are candidates has no address     *)
(* twice: "保证每个IP都不同（在可用IP数量允许的情况下）" (dns_pool.go:857).  *)
EvenShare ==
    rec # NoRecord =>
        \A c \in Candidates(rec) : c # <<>> =>
            \A n \in Counts : \A i, j \in 1..n :
                (i < j /\ j - i < Len(c)) =>
                    HandOut(c, rec.idx, n)[i] # HandOut(c, rec.idx, n)[j]
=============================================================================
