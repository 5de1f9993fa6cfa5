--------------------------- MODULE WebhookProofs ---------------------------
(***************************************************************************)
(* No two pods have the same tun address and what they have stays marked,  *)
(* for any number of pods and addresses.                                   *)
(***************************************************************************)
EXTENDS Webhook, TLAPS

\* What a pod has, and the address that its sidecar rented by itself and has not
\* given back although the pod is being deleted: HoldersDistinct alone would let a
\* sidecar that ends late release the address of another pod.
Owns(p) ==
    Holds(p) \cup (IF phase[p] = "deleted" /\ env[p] = None THEN {use[p]} \ {None} ELSE {})

\* The life of a pod: a sidecar runs only in a stored pod, with the address of its
\* object if there is one; a rented address waits for the answer; only the
\* manager's pod has the router's address, and it always has it.
Shape ==
    \A p \in Pod :
        /\ phase[p] \in {"none", "asked"} => use[p] = None
        /\ call[p] # "idle" => phase[p] = "asked"
        /\ rented[p] # None => call[p] = "answer"
        /\ call[p] = "answer" /\ p # Manager => rented[p] # None
        /\ env[p] # None /\ use[p] # None => use[p] = env[p]
        /\ p = Manager => /\ call[p] \in {"idle", "answer"} /\ rented[p] = None
                          /\ phase[p] # "none" => env[p] = Router
                          /\ use[p] \in {None, Router}
        /\ p # Manager => env[p] # Router /\ use[p] # Router
        /\ call[p] = "release" => env[p] \in Addr

\* A pod that asks brings no address, and what pods own is marked and distinct.
Distinct ==
    /\ \A p \in Pod \ {Manager} : phase[p] = "asked" => env[p] = None
    /\ \A p \in Pod \ {Manager} : Owns(p) \subseteq leased
    /\ \A p, q \in Pod \ {Manager} : p # q => Owns(p) \cap Owns(q) = {}

IInv == WebhookTypeOK /\ Shape /\ (~careless => Distinct)

LEMMA InitIInv == WebhookInit => IInv
<1> SUFFICES ASSUME WebhookInit PROVE IInv
  OBVIOUS
<1>1. WebhookTypeOK
  BY DEF WebhookInit, WebhookTypeOK
<1>2. Shape
  BY AddrAssumption DEF WebhookInit, Shape
<1>3. \A p \in Pod : Owns(p) = {}
  BY DEF WebhookInit, Owns, Holds
<1>4. Distinct
  BY <1>3 DEF WebhookInit, Distinct
<1> QED
  BY <1>1, <1>2, <1>4 DEF IInv

LEMMA TypeInv == WebhookTypeOK /\ Shape /\ [WebhookNext]_webhookVars => WebhookTypeOK'
<1> SUFFICES ASSUME WebhookTypeOK, Shape, [WebhookNext]_webhookVars PROVE WebhookTypeOK'
  OBVIOUS
<1> USE AddrAssumption DEF WebhookTypeOK, Shape
<1>1. ASSUME NEW p \in Pod, CreateRequest(p) PROVE WebhookTypeOK'
  BY <1>1 DEF CreateRequest
<1>2. ASSUME NEW p \in Pod, RemoveOldValues(p) PROVE WebhookTypeOK'
  BY <1>2 DEF RemoveOldValues
<1>3. ASSUME NEW p \in Pod, RentIPRandom(p) PROVE WebhookTypeOK'
  BY <1>3 DEF RentIPRandom
<1>4. ASSUME NEW p \in Pod, RentIPFails(p) PROVE WebhookTypeOK'
  BY <1>4 DEF RentIPFails
<1>5. ASSUME NEW p \in Pod, Patch(p) PROVE WebhookTypeOK'
  BY <1>5 DEF Patch
<1>6. ASSUME NEW p \in Pod, AnswerUnused(p) PROVE WebhookTypeOK'
  BY <1>6 DEF AnswerUnused
<1>7. ASSUME NEW p \in Pod, Serve(p) PROVE WebhookTypeOK'
  BY <1>7 DEF Serve
<1>8. ASSUME NEW p \in Pod, RentIPIfNeeded(p) PROVE WebhookTypeOK'
  BY <1>8 DEF RentIPIfNeeded
<1>9. ASSUME NEW p \in Pod, RentIPAnswerLost(p) PROVE WebhookTypeOK'
  BY <1>9 DEF RentIPAnswerLost
<1>10. ASSUME NEW p \in Pod, ReleaseIPIfNeeded(p) PROVE WebhookTypeOK'
  BY <1>10 DEF ReleaseIPIfNeeded
<1>11. ASSUME NEW p \in Pod, DeleteRequest(p) PROVE WebhookTypeOK'
  BY <1>11 DEF DeleteRequest
<1>12. ASSUME NEW p \in Pod, Gone(p) PROVE WebhookTypeOK'
  BY <1>12 DEF Gone
<1>13. CASE UNCHANGED webhookVars
  BY <1>13 DEF webhookVars
<1> QED
  BY <1>1, <1>2, <1>3, <1>4, <1>5, <1>6, <1>7, <1>8, <1>9, <1>10, <1>11, <1>12, <1>13 DEF WebhookNext

LEMMA ShapeInv == WebhookTypeOK /\ Shape /\ [WebhookNext]_webhookVars => Shape'
<1> SUFFICES ASSUME WebhookTypeOK, Shape, [WebhookNext]_webhookVars PROVE Shape'
  OBVIOUS
<1> USE AddrAssumption DEF WebhookTypeOK, Shape
<1>1. ASSUME NEW p \in Pod, CreateRequest(p) PROVE Shape'
  BY <1>1 DEF CreateRequest
<1>2. ASSUME NEW p \in Pod, RemoveOldValues(p) PROVE Shape'
  BY <1>2 DEF RemoveOldValues
<1>3. ASSUME NEW p \in Pod, RentIPRandom(p) PROVE Shape'
  BY <1>3 DEF RentIPRandom
<1>4. ASSUME NEW p \in Pod, RentIPFails(p) PROVE Shape'
  BY <1>4 DEF RentIPFails
<1>5. ASSUME NEW p \in Pod, Patch(p) PROVE Shape'
  BY <1>5 DEF Patch
<1>6. ASSUME NEW p \in Pod, AnswerUnused(p) PROVE Shape'
  BY <1>6 DEF AnswerUnused
<1>7. ASSUME NEW p \in Pod, Serve(p) PROVE Shape'
  BY <1>7 DEF Serve
<1>8. ASSUME NEW p \in Pod, RentIPIfNeeded(p) PROVE Shape'
  BY <1>8 DEF RentIPIfNeeded
<1>9. ASSUME NEW p \in Pod, RentIPAnswerLost(p) PROVE Shape'
  BY <1>9 DEF RentIPAnswerLost
<1>10. ASSUME NEW p \in Pod, ReleaseIPIfNeeded(p) PROVE Shape'
  BY <1>10 DEF ReleaseIPIfNeeded
<1>11. ASSUME NEW p \in Pod, DeleteRequest(p) PROVE Shape'
  BY <1>11 DEF DeleteRequest
<1>12. ASSUME NEW p \in Pod, Gone(p) PROVE Shape'
  BY <1>12 DEF Gone
<1>13. CASE UNCHANGED webhookVars
  BY <1>13 DEF webhookVars
<1> QED
  BY <1>1, <1>2, <1>3, <1>4, <1>5, <1>6, <1>7, <1>8, <1>9, <1>10, <1>11, <1>12, <1>13 DEF WebhookNext

\* A step of pod p that gives it no address, or one that was not marked.
LEMMA DistinctFresh ==
    ASSUME Distinct, NEW p \in Pod, NEW a, a \notin leased, leased' = leased \cup {a},
           \A r \in Pod : r # p => Owns(r)' = Owns(r) /\ phase'[r] = phase[r] /\ env'[r] = env[r],
           p # Manager => /\ phase'[p] = "asked" => env'[p] = None
                          /\ Owns(p)' \subseteq Owns(p) \cup {a}
    PROVE  Distinct'
<1>1. \A r \in Pod \ {Manager} : phase'[r] = "asked" => env'[r] = None
  BY DEF Distinct
<1>2. \A r \in Pod \ {Manager} : Owns(r)' \subseteq leased'
  BY DEF Distinct
<1>3. ASSUME NEW q \in Pod \ {Manager}, NEW r \in Pod \ {Manager}, q # r
      PROVE  Owns(q)' \cap Owns(r)' = {}
  BY <1>3 DEF Distinct
<1> QED BY <1>1, <1>2, <1>3 DEF Distinct

LEMMA DistinctKept ==
    ASSUME Distinct, NEW p \in Pod, leased' = leased,
           \A r \in Pod : r # p => Owns(r)' = Owns(r) /\ phase'[r] = phase[r] /\ env'[r] = env[r],
           p # Manager => /\ phase'[p] = "asked" => env'[p] = None
                          /\ Owns(p)' \subseteq Owns(p)
    PROVE  Distinct'
<1>1. \A r \in Pod \ {Manager} : phase'[r] = "asked" => env'[r] = None
  BY DEF Distinct
<1>2. \A r \in Pod \ {Manager} : Owns(r)' \subseteq leased'
  BY DEF Distinct
<1>3. ASSUME NEW q \in Pod \ {Manager}, NEW r \in Pod \ {Manager}, q # r
      PROVE  Owns(q)' \cap Owns(r)' = {}
  BY <1>3 DEF Distinct
<1> QED BY <1>1, <1>2, <1>3 DEF Distinct

LEMMA DistinctInv == IInv /\ [WebhookNext]_webhookVars => (~careless' => Distinct')
<1> SUFFICES ASSUME IInv, [WebhookNext]_webhookVars, ~careless' PROVE Distinct'
  OBVIOUS
<1> USE AddrAssumption DEF IInv, WebhookTypeOK, Shape, Distinct, Owns, Holds
<1>1. ASSUME NEW p \in Pod, CreateRequest(p) PROVE Distinct'
  <2>1. PICK v : /\ v \in {IF p = Manager THEN Router ELSE None}
                           \cup (IF p = Manager THEN {} ELSE {env[q] : q \in Pod \ {Manager}})
                 /\ env' = [env EXCEPT ![p] = v]
                 /\ careless' = (careless \/ v \in Addr)
    BY <1>1 DEF CreateRequest
  <2>2. ~careless /\ v \notin Addr
    BY <2>1
  <2>3. p # Manager => v = None
    BY <2>1, <2>2
  <2>4. phase' = [phase EXCEPT ![p] = "asked"] /\ UNCHANGED <<leased, rented, use>>
    BY <1>1 DEF CreateRequest
  <2>5. rented[p] = None /\ use[p] = None
    BY <1>1 DEF CreateRequest
  <2>6. \A r \in Pod : r # p => Owns(r)' = Owns(r)
    BY <2>1, <2>4
  <2>7. Owns(p)' = {}
    BY <2>1, <2>4, <2>5
  <2>8. \A r \in Pod \ {Manager} : phase'[r] = "asked" => env'[r] = None
    BY <2>1, <2>2, <2>3, <2>4
  <2> HIDE DEF Owns
  <2> QED
    BY <2>2, <2>4, <2>6, <2>7, <2>8
<1>2. ASSUME NEW p \in Pod, RemoveOldValues(p) PROVE Distinct'
  BY <1>2 DEF RemoveOldValues
<1>3. ASSUME NEW p \in Pod, RentIPRandom(p) PROVE Distinct'
  <2>1. ~careless /\ Distinct
    BY <1>3 DEF RentIPRandom
  <2>2. \A r \in Pod : r # p => Owns(r)' = Owns(r) /\ phase'[r] = phase[r] /\ env'[r] = env[r]
    BY <1>3 DEF RentIPRandom
  <2>3. PICK a \in Addr \ leased :
            leased' = leased \cup {a} /\ (p # Manager => Owns(p)' \subseteq Owns(p) \cup {a})
    BY <1>3, <2>1 DEF RentIPRandom
  <2>4. p # Manager /\ phase'[p] = "asked" => env'[p] = None
    BY <1>3, <2>1 DEF RentIPRandom
  <2> HIDE DEF Owns, Distinct, IInv, WebhookTypeOK, Shape, Holds
  <2> QED
    BY <2>1, <2>2, <2>3, <2>4, DistinctFresh
<1>4. ASSUME NEW p \in Pod, RentIPFails(p) PROVE Distinct'
  <2>1. ~careless /\ Distinct
    BY <1>4 DEF RentIPFails
  <2>2. \A r \in Pod : r # p => Owns(r)' = Owns(r) /\ phase'[r] = phase[r] /\ env'[r] = env[r]
    BY <1>4 DEF RentIPFails
  <2>3. p # Manager => Owns(p)' \subseteq Owns(p)
    BY <1>4, <2>1 DEF RentIPFails
  <2>4. leased' = leased /\ (p # Manager /\ phase'[p] = "asked" => env'[p] = None)
    BY <1>4, <2>1 DEF RentIPFails
  <2> HIDE DEF Owns, Distinct, IInv, WebhookTypeOK, Shape, Holds
  <2> QED
    BY <2>1, <2>2, <2>3, <2>4, DistinctKept
<1>5. ASSUME NEW p \in Pod, Patch(p) PROVE Distinct'
  <2>1. ~careless /\ Distinct
    BY <1>5 DEF Patch
  <2>2. \A r \in Pod : r # p => Owns(r)' = Owns(r) /\ phase'[r] = phase[r] /\ env'[r] = env[r]
    BY <1>5 DEF Patch
  <2>3. p # Manager => Owns(p)' \subseteq Owns(p)
    BY <1>5, <2>1 DEF Patch
  <2>4. leased' = leased /\ (p # Manager /\ phase'[p] = "asked" => env'[p] = None)
    BY <1>5, <2>1 DEF Patch
  <2> HIDE DEF Owns, Distinct, IInv, WebhookTypeOK, Shape, Holds
  <2> QED
    BY <2>1, <2>2, <2>3, <2>4, DistinctKept
<1>6. ASSUME NEW p \in Pod, AnswerUnused(p) PROVE Distinct'
  <2>1. ~careless /\ leased' = leased
    BY <1>6 DEF AnswerUnused
  <2>2. \A r \in Pod : r # p => Owns(r)' = Owns(r)
    BY <1>6 DEF AnswerUnused
  <2>3. Owns(p)' = {}
    BY <1>6, <2>1 DEF AnswerUnused
  <2>4. \A r \in Pod \ {Manager} : phase'[r] = "asked" => env'[r] = None
    BY <1>6, <2>1 DEF AnswerUnused
  <2> HIDE DEF Owns
  <2> QED
    BY <2>1, <2>2, <2>3, <2>4
<1>7. ASSUME NEW p \in Pod, Serve(p) PROVE Distinct'
  <2>1. ~careless /\ Distinct
    BY <1>7 DEF Serve
  <2>2. \A r \in Pod : r # p => Owns(r)' = Owns(r) /\ phase'[r] = phase[r] /\ env'[r] = env[r]
    BY <1>7 DEF Serve
  <2>3. p # Manager => Owns(p)' \subseteq Owns(p)
    BY <1>7, <2>1 DEF Serve
  <2>4. leased' = leased /\ (p # Manager /\ phase'[p] = "asked" => env'[p] = None)
    BY <1>7, <2>1 DEF Serve
  <2> HIDE DEF Owns, Distinct, IInv, WebhookTypeOK, Shape, Holds
  <2> QED
    BY <2>1, <2>2, <2>3, <2>4, DistinctKept
<1>8. ASSUME NEW p \in Pod, RentIPIfNeeded(p) PROVE Distinct'
  <2>1. ~careless /\ Distinct
    BY <1>8 DEF RentIPIfNeeded
  <2>2. \A r \in Pod : r # p => Owns(r)' = Owns(r) /\ phase'[r] = phase[r] /\ env'[r] = env[r]
    BY <1>8 DEF RentIPIfNeeded
  <2>3. PICK a \in Addr \ leased :
            leased' = leased \cup {a} /\ (p # Manager => Owns(p)' \subseteq Owns(p) \cup {a})
    BY <1>8, <2>1 DEF RentIPIfNeeded
  <2>4. p # Manager /\ phase'[p] = "asked" => env'[p] = None
    BY <1>8, <2>1 DEF RentIPIfNeeded
  <2> HIDE DEF Owns, Distinct, IInv, WebhookTypeOK, Shape, Holds
  <2> QED
    BY <2>1, <2>2, <2>3, <2>4, DistinctFresh
<1>9. ASSUME NEW p \in Pod, RentIPAnswerLost(p) PROVE Distinct'
  <2>1. ~careless /\ Distinct
    BY <1>9 DEF RentIPAnswerLost
  <2>2. \A r \in Pod : r # p => Owns(r)' = Owns(r) /\ phase'[r] = phase[r] /\ env'[r] = env[r]
    BY <1>9 DEF RentIPAnswerLost
  <2>3. PICK a \in Addr \ leased :
            leased' = leased \cup {a} /\ (p # Manager => Owns(p)' \subseteq Owns(p) \cup {a})
    BY <1>9, <2>1 DEF RentIPAnswerLost
  <2>4. p # Manager /\ phase'[p] = "asked" => env'[p] = None
    BY <1>9, <2>1 DEF RentIPAnswerLost
  <2> HIDE DEF Owns, Distinct, IInv, WebhookTypeOK, Shape, Holds
  <2> QED
    BY <2>1, <2>2, <2>3, <2>4, DistinctFresh
<1>10. ASSUME NEW p \in Pod, ReleaseIPIfNeeded(p) PROVE Distinct'
  <2>1. UNCHANGED <<phase, env, call, rented>> /\ use' = [use EXCEPT ![p] = None]
    BY <1>10 DEF ReleaseIPIfNeeded
  <2>2. ~careless
    BY <1>10 DEF ReleaseIPIfNeeded
  <2>3. \A r \in Pod : r # p => Owns(r)' = Owns(r)
    BY <2>1
  <2>4. Owns(p)' \subseteq Owns(p)
    BY <2>1
  <2>5. leased' = leased \/ (leased' = leased \ {use[p]} /\ env[p] = None)
    BY <1>10 DEF ReleaseIPIfNeeded
  <2>6. CASE leased' = leased
    <3> HIDE DEF Owns
    <3> QED
      BY <2>1, <2>2, <2>3, <2>4, <2>6
  <2>7. CASE leased' = leased \ {use[p]} /\ env[p] = None
    <3>1. use[p] \in Owns(p) /\ use[p] \notin Owns(p)' /\ p # Manager
      BY <1>10, <2>1, <2>7 DEF ReleaseIPIfNeeded
    <3> HIDE DEF Owns
    <3> QED
      BY <2>1, <2>2, <2>3, <2>4, <2>7, <3>1
  <2> QED
    BY <2>5, <2>6, <2>7
<1>11. ASSUME NEW p \in Pod, DeleteRequest(p) PROVE Distinct'
  <2>1. /\ phase[p] \in {"stored", "deleted"} /\ phase' = [phase EXCEPT ![p] = "deleted"]
        /\ UNCHANGED <<env, call, rented, use>>
    BY <1>11 DEF DeleteRequest
  <2>2. ~careless
    BY <1>11 DEF DeleteRequest
  <2>3. \A r \in Pod : r # p => Owns(r)' = Owns(r)
    BY <2>1
  <2>4. Owns(p)' \subseteq Owns(p)
    BY <2>1
  <2>5. \/ leased' = leased
        \/ leased' = leased \ {env[p]} /\ env[p] \in Addr /\ phase[p] = "stored"
    BY <1>11, <2>2 DEF DeleteRequest
  <2>6. CASE leased' = leased
    <3> HIDE DEF Owns
    <3> QED
      BY <2>1, <2>2, <2>3, <2>4, <2>6
  <2>7. CASE leased' = leased \ {env[p]} /\ env[p] \in Addr /\ phase[p] = "stored"
    <3>1. env[p] \in Owns(p) /\ Owns(p)' = {} /\ p # Manager
      BY <2>1, <2>7
    <3> HIDE DEF Owns
    <3> QED
      BY <2>1, <2>2, <2>3, <2>7, <3>1
  <2> QED
    BY <2>5, <2>6, <2>7
<1>12. ASSUME NEW p \in Pod, Gone(p) PROVE Distinct'
  <2>1. ~careless /\ Distinct
    BY <1>12 DEF Gone
  <2>2. \A r \in Pod : r # p => Owns(r)' = Owns(r) /\ phase'[r] = phase[r] /\ env'[r] = env[r]
    BY <1>12 DEF Gone
  <2>3. p # Manager => Owns(p)' \subseteq Owns(p)
    BY <1>12, <2>1 DEF Gone
  <2>4. leased' = leased /\ (p # Manager /\ phase'[p] = "asked" => env'[p] = None)
    BY <1>12, <2>1 DEF Gone
  <2> HIDE DEF Owns, Distinct, IInv, WebhookTypeOK, Shape, Holds
  <2> QED
    BY <2>1, <2>2, <2>3, <2>4, DistinctKept
<1>13. CASE UNCHANGED webhookVars
  BY <1>13 DEF webhookVars
<1> QED
  BY <1>1, <1>2, <1>3, <1>4, <1>5, <1>6, <1>7, <1>8, <1>9, <1>10, <1>11, <1>12, <1>13 DEF WebhookNext

LEMMA NextIInv == IInv /\ [WebhookNext]_webhookVars => IInv'
BY TypeInv, ShapeInv, DistinctInv DEF IInv

\* The pod of the manager has no address of the range, the others no other.
LEMMA IInvHolders == IInv => HoldersDistinct
<1> SUFFICES ASSUME IInv, ~careless, NEW p \in Pod \ {Manager}
             PROVE  /\ Holds(p) \subseteq leased
                    /\ \A q \in Pod \ {p} : Holds(p) \cap Holds(q) = {}
  BY DEF HoldersDistinct
<1>1. Distinct /\ \A r \in Pod : Holds(r) \subseteq Owns(r)
  BY DEF IInv, Owns
<1>2. Holds(p) \subseteq leased
  BY <1>1 DEF Distinct
<1>3. ASSUME NEW q \in Pod \ {p}, q # Manager PROVE Holds(p) \cap Holds(q) = {}
  BY <1>1, <1>3 DEF Distinct
<1>4. ASSUME Manager \in Pod PROVE Holds(p) \cap Holds(Manager) = {}
  <2>1. Holds(Manager) \subseteq {Router}
    BY <1>4 DEF IInv, WebhookTypeOK, Shape, Holds
  <2>2. Router \notin Holds(p)
    BY <1>2, AddrAssumption DEF IInv, WebhookTypeOK
  <2> HIDE DEF Holds
  <2> QED
    BY <2>1, <2>2
<1> QED
  BY <1>2, <1>3, <1>4

\* Pods that are not being deleted have distinct addresses, and those stay marked in
\* the ConfigMap, unless a manifest was copied, a deletion repeated or an address
\* released by a sidecar that goes on with it (pkg/webhook/pods.go, dhcp.go,
\* pkg/handler/serve.go).
THEOREM AddressesDistinct == WebhookSpec => []HoldersDistinct
<1>1. IInv /\ [WebhookNext]_webhookVars => IInv'
  BY NextIInv
<1> QED
  BY InitIInv, <1>1, IInvHolders, PTL DEF WebhookSpec

-----------------------------------------------------------------------------

\* A pod that will give the address back: a rented one waits to be patched in, a stored
\* pod releases what its object names, a sidecar what it rented itself.  A pod that only
\* asks with an address, or whose deletion was admitted, does not count.
Releases(p, a) ==
    \/ rented[p] = a
    \/ phase[p] = "stored" /\ env[p] = a
    \/ use[p] = a /\ env[p] = None

\* Every mark that is not lost has a pod that will release it.
Accounted ==
    /\ WebhookTypeOK /\ Shape
    /\ \A a \in leased \ lost : \E p \in Pod : Releases(p, a)

\* A step of pod p keeps what the others will release.
LEMMA OthersRelease ==
    ASSUME NEW p \in Pod, NEW q \in Pod, NEW a, Releases(q, a), q # p,
           rented'[q] = rented[q], phase'[q] = phase[q], env'[q] = env[q], use'[q] = use[q]
    PROVE  Releases(q, a)'
BY DEF Releases

LEMMA NextAccounted == Accounted /\ [WebhookNext]_webhookVars => Accounted'
<1> SUFFICES ASSUME Accounted, [WebhookNext]_webhookVars PROVE Accounted'
  OBVIOUS
<1>0. WebhookTypeOK /\ Shape /\ WebhookTypeOK' /\ Shape'
  BY TypeInv, ShapeInv DEF Accounted
<1> SUFFICES ASSUME NEW a \in leased' \ lost' PROVE \E p \in Pod : Releases(p, a)'
  BY <1>0 DEF Accounted
<1>1. ASSUME NEW p \in Pod,
             \/ CreateRequest(p) \/ RemoveOldValues(p) \/ RentIPRandom(p)
             \/ RentIPFails(p) \/ Patch(p) \/ AnswerUnused(p)
             \/ Serve(p) \/ RentIPIfNeeded(p) \/ RentIPAnswerLost(p)
             \/ ReleaseIPIfNeeded(p) \/ DeleteRequest(p) \/ Gone(p)
      PROVE  \E q \in Pod : Releases(q, a)'
  <2>1. CASE a \notin leased
    <3>1. CASE RentIPRandom(p)
      <4>1. rented'[p] = a
        BY <1>0, <2>1, <3>1 DEF RentIPRandom, WebhookTypeOK
      <4> QED BY <4>1 DEF Releases
    <3>2. CASE RentIPIfNeeded(p)
      <4>1. use'[p] = a /\ env'[p] = None
        BY <1>0, <2>1, <3>2 DEF RentIPIfNeeded, WebhookTypeOK
      <4> QED BY <4>1 DEF Releases
    <3> QED
      BY <1>1, <2>1, <3>1, <3>2 DEF CreateRequest, RemoveOldValues, RentIPFails, Patch, AnswerUnused,
         Serve, RentIPAnswerLost, ReleaseIPIfNeeded, DeleteRequest, Gone
  <2>2. CASE a \in leased
    <3>1. a \notin lost
      BY <1>1 DEF CreateRequest, RemoveOldValues, RentIPRandom, RentIPFails, Patch, AnswerUnused,
         Serve, RentIPIfNeeded, RentIPAnswerLost, ReleaseIPIfNeeded, DeleteRequest, Gone
    <3>2. PICK q \in Pod : Releases(q, a)
      BY <2>2, <3>1 DEF Accounted
    <3>3. CASE q # p
      <4>1. rented'[q] = rented[q] /\ phase'[q] = phase[q] /\ env'[q] = env[q] /\ use'[q] = use[q]
        BY <1>0, <1>1, <3>3 DEF WebhookTypeOK, CreateRequest, RemoveOldValues, RentIPRandom, RentIPFails,
           Patch, AnswerUnused, Serve, RentIPIfNeeded, RentIPAnswerLost, ReleaseIPIfNeeded, DeleteRequest, Gone
      <4> QED BY <3>2, <3>3, <4>1, OthersRelease
    <3>4. CASE q = p
      <4> USE <1>0, <3>2, <3>4, AddrAssumption DEF Releases, WebhookTypeOK, Shape
      <4>1. CASE CreateRequest(p)
        BY <4>1 DEF CreateRequest
      <4>2. CASE RemoveOldValues(p)
        BY <4>2 DEF RemoveOldValues
      <4>3. CASE RentIPRandom(p)
        BY <4>3 DEF RentIPRandom
      <4>4. CASE RentIPFails(p)
        BY <4>4 DEF RentIPFails
      <4>5. CASE Patch(p)
        BY <4>5 DEF Patch
      <4>6. CASE AnswerUnused(p)
        BY <4>6 DEF AnswerUnused
      <4>7. CASE Serve(p)
        BY <4>7 DEF Serve
      <4>8. CASE RentIPIfNeeded(p)
        BY <4>8 DEF RentIPIfNeeded
      <4>9. CASE RentIPAnswerLost(p)
        BY <4>9 DEF RentIPAnswerLost
      <4>10. CASE ReleaseIPIfNeeded(p)
        BY <4>10 DEF ReleaseIPIfNeeded
      <4>11. CASE DeleteRequest(p)
        BY <4>11 DEF DeleteRequest
      <4>12. CASE Gone(p)
        BY <4>12 DEF Gone
      <4> QED BY <1>1, <4>1, <4>2, <4>3, <4>4, <4>5, <4>6, <4>7, <4>8, <4>9, <4>10, <4>11, <4>12
    <3> QED BY <3>3, <3>4
  <2> QED BY <2>1, <2>2
<1>2. CASE UNCHANGED webhookVars
  <2>1. PICK p \in Pod : Releases(p, a)
    BY <1>2 DEF webhookVars, Accounted
  <2> QED BY <1>2, <2>1 DEF webhookVars, Releases
<1> QED BY <1>1, <1>2 DEF WebhookNext

\* A mark without an owner was left by a lost answer, a failed release or a killed
\* sidecar, also when manifests are copied and deletions repeated (pods.go:73-181,
\* serve.go:45-60).
THEOREM NothingElseLeaks == WebhookSpec => []NoOtherLeak
<1>1. WebhookInit => Accounted
  BY InitIInv DEF IInv, Accounted, WebhookInit
<1>2. Accounted => NoOtherLeak
  BY DEF Accounted, NoOtherLeak, Releases
<1>3. Accounted /\ [WebhookNext]_webhookVars => Accounted'
  BY NextAccounted
<1> QED BY <1>1, <1>2, <1>3, PTL DEF WebhookSpec
============================================================================
