-------------------------- MODULE ClientCacheProofs --------------------------
(***************************************************************************)
(* Proofs about ClientCache, for any numbers of targets, requests and      *)
(* prewarmings.  The invariants are about one user, one prewarmer and one  *)
(* target each: what keeps them apart is that an entry of the shared map   *)
(* that is Absent belongs to a target nobody prewarms.                     *)
(***************************************************************************)
EXTENDS ClientCache, TLAPS

UserOK(u) ==
    /\ user[u].at # "idle" => user[u].target \in Targets
    /\ user[u].at \in {"adopt", "h2", "h1"} => user[u].client = user[u].target

PrewarmerOK(p) ==
    \/ prewarmer[p] = IdlePrewarmer
    \/ /\ prewarmer[p].at = "dialling" /\ prewarmer[p].target \in Targets
       /\ shared[prewarmer[p].target] # Absent

(* A slot is empty, marked, or holds the client of its target.             *)
SlotOK(t) ==
    /\ shared[t] \in {t, Absent, Marked}
    /\ \A i \in Instances : own[i][t] \in {t, Absent}

UsersOK == \A u \in Users : UserOK(u)
PrewarmersOK == \A p \in Prewarmers : PrewarmerOK(p)
SlotsOK == \A t \in Targets : SlotOK(t)

CacheInv == CacheTypeOK /\ UsersOK /\ PrewarmersOK /\ SlotsOK /\ OnePrewarm

-----------------------------------------------------------------------------
LEMMA NotTargets ==
    /\ Absent # Marked /\ Absent \notin Targets /\ Marked \notin Targets
    /\ \A u \in Users : OwnerOf[u] \in Instances
BY EmptySlots, OwnersAreInstances

LEMMA CacheInitial == CacheInit => CacheInv
<1> SUFFICES ASSUME CacheInit PROVE CacheInv
  OBVIOUS
<1>1. CacheTypeOK
  BY DEF CacheInit, NoClient, IdleUser, IdlePrewarmer, CacheTypeOK
<1>2. UsersOK /\ PrewarmersOK /\ SlotsOK
  BY DEF CacheInit, NoClient, IdleUser, UsersOK, UserOK, PrewarmersOK, PrewarmerOK, SlotsOK, SlotOK
<1>3. OnePrewarm
  BY DEF CacheInit, IdlePrewarmer, OnePrewarm
<1> QED BY <1>1, <1>2, <1>3 DEF CacheInv

(* The steps of a request that leave the shared map as it is.              *)
LEMMA UserSteps ==
    ASSUME CacheInv, NEW u \in Users, NEW t \in Targets,
           NeedClient(u, t) \/ LookShared(u) \/ FindOwn(u) \/ FallBack(u) \/ Finish(u)
    PROVE  CacheInv'
<1> USE DEF CacheInv
<1>1. UNCHANGED <<shared, own, prewarmer>>
  BY DEF NeedClient, LookShared, FindOwn, FallBack, Finish
<1>2. PrewarmersOK' /\ SlotsOK' /\ OnePrewarm'
  BY <1>1 DEF PrewarmersOK, PrewarmerOK, SlotsOK, SlotOK, OnePrewarm
<1>3. /\ user' \in [Users -> [at : {"idle", "look", "adopt", "own", "h2", "h1"},
                             target : Targets \cup {Absent}, client : Targets \cup {Absent}]]
      /\ \A v \in Users : v # u => user'[v] = user[v]
      /\ UserOK(u)'
  <2>1. CASE NeedClient(u, t)
    BY <2>1 DEF NeedClient, CacheTypeOK, UserOK
  <2>2. CASE LookShared(u)
    <3>1. user[u].at = "look" /\ user[u].target \in Targets
      BY <2>2 DEF LookShared, UsersOK, UserOK
    <3>2. shared[user[u].target] \in Targets => shared[user[u].target] = user[u].target
      BY <3>1, NotTargets DEF SlotsOK, SlotOK
    <3> QED BY <2>2, <3>1, <3>2 DEF LookShared, CacheTypeOK, UserOK
  <2>3. CASE FindOwn(u)
    <3>1. user[u].at = "own" /\ user[u].target \in Targets
      BY <2>3 DEF FindOwn, UsersOK, UserOK
    <3>2. own[OwnerOf[u]][user[u].target] \in {user[u].target, Absent}
      BY <3>1, NotTargets DEF SlotsOK, SlotOK
    <3> QED BY <2>3, <3>1, <3>2 DEF FindOwn, CacheTypeOK, UserOK
  <2>4. CASE FallBack(u)
    BY <2>4 DEF FallBack, CacheTypeOK, UsersOK, UserOK
  <2>5. CASE Finish(u)
    BY <2>5 DEF Finish, CacheTypeOK, UserOK, IdleUser
  <2> QED BY <2>1, <2>2, <2>3, <2>4, <2>5
<1>4. CacheTypeOK'
  BY <1>1, <1>3 DEF CacheTypeOK
<1>5. UsersOK'
  BY <1>3 DEF UsersOK, UserOK
<1> QED BY <1>2, <1>4, <1>5

LEMMA AdoptStep ==
    ASSUME CacheInv, NEW u \in Users, Adopt(u)
    PROVE  CacheInv'
<1> USE DEF CacheInv
<1> DEFINE i == OwnerOf[u]
           t == user[u].target
<1>1. user[u].at = "adopt" /\ t \in Targets /\ user[u].client = t /\ i \in Instances
  BY NotTargets DEF Adopt, UsersOK, UserOK
<1>2. own' = [own EXCEPT ![i][t] = t] /\ user' = [user EXCEPT ![u].at = "h2"]
      /\ UNCHANGED <<shared, prewarmer>>
  BY <1>1 DEF Adopt
<1>3. CacheTypeOK'
  BY <1>1, <1>2 DEF CacheTypeOK
<1>4. UsersOK'
  BY <1>1, <1>2 DEF UsersOK, UserOK, CacheTypeOK
<1>5. PrewarmersOK' /\ OnePrewarm'
  BY <1>2 DEF PrewarmersOK, PrewarmerOK, OnePrewarm
<1>6. SlotsOK'
  <2> SUFFICES ASSUME NEW s \in Targets PROVE SlotOK(s)'
    BY DEF SlotsOK
  <2>1. SlotOK(s)
    BY DEF SlotsOK
  <2> QED BY <1>1, <1>2, <2>1 DEF SlotOK, CacheTypeOK
<1> QED BY <1>3, <1>4, <1>5, <1>6

LEMMA BuildStep ==
    ASSUME CacheInv, NEW u \in Users, BuildH2(u)
    PROVE  CacheInv'
<1> USE DEF CacheInv
<1> DEFINE i == OwnerOf[u]
           t == user[u].target
<1>1. user[u].at = "own" /\ t \in Targets /\ i \in Instances
  BY NotTargets DEF BuildH2, UsersOK, UserOK
<1>2. /\ own' = [own EXCEPT ![i][t] = t] /\ shared' = [shared EXCEPT ![t] = t]
      /\ user' = [user EXCEPT ![u].at = "h2", ![u].client = t]
      /\ UNCHANGED prewarmer
  BY DEF BuildH2
<1>3. CacheTypeOK'
  BY <1>1, <1>2 DEF CacheTypeOK
<1>4. UsersOK'
  BY <1>1, <1>2 DEF UsersOK, UserOK, CacheTypeOK
<1>5. PrewarmersOK' /\ OnePrewarm'
  BY <1>1, <1>2, NotTargets DEF PrewarmersOK, PrewarmerOK, OnePrewarm, CacheTypeOK
<1>6. SlotsOK'
  <2> SUFFICES ASSUME NEW s \in Targets PROVE SlotOK(s)'
    BY DEF SlotsOK
  <2>1. SlotOK(s)
    BY DEF SlotsOK
  <2> QED BY <1>1, <1>2, <2>1 DEF SlotOK, CacheTypeOK
<1> QED BY <1>3, <1>4, <1>5, <1>6

LEMMA InstanceStep ==
    ASSUME CacheInv, NEW i \in Instances, NewUTLSClient(i)
    PROVE  CacheInv'
<1> USE DEF CacheInv
<1>1. own' = [own EXCEPT ![i] = NoClient] /\ UNCHANGED <<shared, user, prewarmer>>
  BY DEF NewUTLSClient
<1>2. CacheTypeOK'
  BY <1>1 DEF CacheTypeOK, NoClient
<1>3. UsersOK' /\ PrewarmersOK' /\ OnePrewarm'
  BY <1>1 DEF UsersOK, UserOK, PrewarmersOK, PrewarmerOK, OnePrewarm
<1>4. SlotsOK'
  BY <1>1 DEF SlotsOK, SlotOK, NoClient, CacheTypeOK
<1> QED BY <1>2, <1>3, <1>4

(* A prewarming takes a target without an entry: nobody prewarms it.       *)
LEMMA PrewarmStep ==
    ASSUME CacheInv, NEW p \in Prewarmers, NEW t \in Targets, Prewarm(p, t)
    PROVE  CacheInv'
<1> USE DEF CacheInv
<1>1. /\ shared[t] = Absent /\ shared' = [shared EXCEPT ![t] = Marked]
      /\ prewarmer' = [prewarmer EXCEPT ![p] = [at |-> "dialling", target |-> t]]
      /\ UNCHANGED <<own, user>>
  BY DEF Prewarm
<1>2. \A q \in Prewarmers : prewarmer[q].target # t
  BY <1>1, NotTargets DEF PrewarmersOK, PrewarmerOK, IdlePrewarmer
<1>3. CacheTypeOK'
  BY <1>1 DEF CacheTypeOK
<1>4. UsersOK'
  BY <1>1 DEF UsersOK, UserOK
<1>5. PrewarmersOK'
  BY <1>1, <1>2, NotTargets DEF PrewarmersOK, PrewarmerOK, CacheTypeOK, IdlePrewarmer
<1>6. OnePrewarm'
  BY <1>1, <1>2 DEF OnePrewarm, CacheTypeOK
<1>7. SlotsOK'
  BY <1>1 DEF SlotsOK, SlotOK, CacheTypeOK
<1> QED BY <1>3, <1>4, <1>5, <1>6, <1>7

LEMMA PrewarmingStep ==
    ASSUME CacheInv, NEW p \in Prewarmers, Prewarming(p)
    PROVE  CacheInv'
<1> USE DEF CacheInv
<1> DEFINE t == prewarmer[p].target
<1>1. prewarmer[p].at = "dialling" /\ t \in Targets
  BY DEF Prewarming, Prewarmed, PrewarmFails, PrewarmersOK, PrewarmerOK, IdlePrewarmer
<1>2. PICK c \in {t, Absent} : shared' = [shared EXCEPT ![t] = c]
  BY DEF Prewarming, Prewarmed, PrewarmFails
<1>3. prewarmer' = [prewarmer EXCEPT ![p] = IdlePrewarmer] /\ UNCHANGED <<own, user>>
  BY DEF Prewarming, Prewarmed, PrewarmFails
<1>4. CacheTypeOK'
  BY <1>1, <1>2, <1>3 DEF CacheTypeOK, IdlePrewarmer
<1>5. UsersOK'
  BY <1>3 DEF UsersOK, UserOK
<1>6. PrewarmersOK'
  <2> SUFFICES ASSUME NEW q \in Prewarmers PROVE PrewarmerOK(q)'
    BY DEF PrewarmersOK
  <2>1. CASE q = p
    BY <2>1, <1>3 DEF PrewarmerOK, CacheTypeOK
  <2>2. CASE q # p
    <3>1. prewarmer'[q] = prewarmer[q] /\ PrewarmerOK(q)
      BY <2>2, <1>3 DEF CacheTypeOK, PrewarmersOK
    <3>2. prewarmer[q].at = "dialling" => prewarmer[q].target # t
      BY <2>2, <1>1 DEF OnePrewarm
    <3> QED BY <3>1, <3>2, <1>1, <1>2 DEF PrewarmerOK, CacheTypeOK, IdlePrewarmer
  <2> QED BY <2>1, <2>2
<1>7. OnePrewarm'
  <2>1. IdlePrewarmer.at # "dialling" /\ IdlePrewarmer.target \notin Targets
    BY NotTargets DEF IdlePrewarmer
  <2> QED BY <2>1, <1>3, <1>6 DEF OnePrewarm, CacheTypeOK, PrewarmersOK, PrewarmerOK
<1>8. SlotsOK'
  BY <1>1, <1>2, <1>3 DEF SlotsOK, SlotOK, CacheTypeOK
<1> QED BY <1>4, <1>5, <1>6, <1>7, <1>8

-----------------------------------------------------------------------------
(* What holds of the two maps in every state.                              *)
THEOREM CacheInvariant == CacheSpec => []CacheInv
<1>1. CacheInv /\ [CacheNext]_cacheVars => CacheInv'
  <2> SUFFICES ASSUME CacheInv, [CacheNext]_cacheVars PROVE CacheInv'
    OBVIOUS
  <2>1. CASE UNCHANGED cacheVars
    BY <2>1 DEF cacheVars, CacheInv, CacheTypeOK, UsersOK, UserOK, PrewarmersOK, PrewarmerOK,
                SlotsOK, SlotOK, OnePrewarm
  <2>2. CASE \E i \in Instances : NewUTLSClient(i)
    BY <2>2, InstanceStep
  <2>3. ASSUME NEW u \in Users, GetOrCreate(u) \/ FallBack(u) \/ Finish(u) PROVE CacheInv'
    <3>1. CASE Adopt(u)
      BY <3>1, AdoptStep
    <3>2. CASE BuildH2(u)
      BY <3>2, BuildStep
    <3>3. CASE LookShared(u) \/ FindOwn(u) \/ FallBack(u) \/ Finish(u)
      <4>1. \E t \in Targets : TRUE
        BY <3>3 DEF CacheInv, UsersOK, UserOK, LookShared, FindOwn, FallBack, Finish
      <4> QED BY <4>1, <3>3, UserSteps
    <3> QED BY <2>3, <3>1, <3>2, <3>3 DEF GetOrCreate
  <2>4. CASE \E u \in Users, t \in Targets : NeedClient(u, t)
    BY <2>4, UserSteps
  <2>5. CASE \E p \in Prewarmers, t \in Targets : Prewarm(p, t)
    BY <2>5, PrewarmStep
  <2>6. CASE \E p \in Prewarmers : Prewarming(p)
    BY <2>6, PrewarmingStep
  <2> QED BY <2>1, <2>2, <2>3, <2>4, <2>5, <2>6 DEF CacheNext
<1> QED BY CacheInitial, <1>1, PTL DEF CacheSpec

(* No target is prewarmed twice at once, for any number of goroutines that *)
(* report new addresses (utls_client.go:259).                              *)
THEOREM PrewarmedOnce == CacheSpec => []OnePrewarm
<1>1. CacheInv => OnePrewarm
  BY DEF CacheInv
<1> QED BY <1>1, CacheInvariant, PTL
=============================================================================
