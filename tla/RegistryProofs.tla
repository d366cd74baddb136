--------------------------- MODULE RegistryProofs ----------------------------
(***************************************************************************)
(* Theorems about Registry for any channels, priorities, weights and       *)
(* models, and for any number of picks that run beside registrations and   *)
(* marks.                                                                  *)
(***************************************************************************)
EXTENDS Registry, SequenceTheorems, TLAPS

(* The channels pick k chooses from, as the registry was when it looked.   *)
Seen(k) == {c \in 1..known[k] :
    c \notin down[k] /\ channels[c].provider = ProviderOf[model[k]]}

SeenCandidates == \A k \in Picks : candidates[k] = Seen(k)

(* Nothing brings a channel back.                                          *)
MarkedStayMarked == \A k \in Picks : \A c \in down[k] : ~healthy[c]

(* A pick that has not looked has seen nothing and returned nothing.       *)
NotLooked == \A k \in Picks : pc[k] = "idle" => picked[k] = None /\ known[k] = 0

(* What a pick returns is drawn from the first tier of what it saw, and    *)
(* None only if it saw nothing.                                            *)
PickedAsSeen == \A k \in Picks :
    /\ picked[k] # None => picked[k] \in Drawn(Tier(Seen(k)))
    /\ pc[k] = "returned" /\ picked[k] = None => Seen(k) = {}

IInv == TypeOK /\ SeenCandidates /\ MarkedStayMarked /\ NotLooked /\ PickedAsSeen

-----------------------------------------------------------------------------
(* Drawing from a tier gives a channel of the tier: no channel of the set  *)
(* has a better priority, and weight 0 is drawn only where nothing of the  *)
(* tier has a weight.                                                      *)
LEMMA DrawnIsBest ==
    ASSUME TypeOK, NEW cs \in SUBSET Registered, NEW c \in Drawn(Tier(cs)), NEW d \in cs
    PROVE  /\ c \in cs
           /\ channels[c].priority <= channels[d].priority
           /\ channels[c].priority = channels[d].priority /\ channels[d].weight > 0
                => channels[c].weight > 0
<1>1. c \in Tier(cs)
  BY DEF Drawn
<1>2. c \in cs /\ channels[c].priority <= channels[d].priority
  BY <1>1 DEF Tier
<1>3. ASSUME channels[c].priority = channels[d].priority, channels[d].weight > 0
      PROVE  channels[c].weight > 0
  <2>1. d \in Tier(cs)
    BY <1>1, <1>3 DEF Tier
  <2>2. QED
    BY <1>3, <2>1 DEF Drawn
<1>4. QED
  BY <1>2, <1>3

(* What a pick saw is a set of registered channels, and of it all that are *)
(* up now are still to be seen.                                            *)
LEMMA SeenIsRegistered ==
    ASSUME TypeOK, NEW k \in Picks
    PROVE  Seen(k) \subseteq Registered
  BY DEF TypeOK, Seen, Registered

LEMMA UpWasSeen ==
    ASSUME TypeOK, MarkedStayMarked, NEW k \in Picks
    PROVE  StillUp(k) \subseteq Seen(k)
  BY DEF MarkedStayMarked, StillUp, Seen

-----------------------------------------------------------------------------
LEMMA AppendKeeps ==
    ASSUME NEW S, NEW s \in Seq(S), NEW e \in S, NEW i \in 1..Len(s)
    PROVE  Append(s, e)[i] = s[i]
  BY AppendProperties

(* What any step does to the channels that are there.                      *)
RegistryGrows ==
    /\ Registered \subseteq Registered'
    /\ \A c \in Registered : channels'[c] = channels[c] /\ (healthy'[c] => healthy[c])

LEMMA CreateType ==
    ASSUME TypeOK, NEW c \in Channel, CreateChannel(c)
    PROVE  RegistryGrows /\ TypeOK'
<1>1. /\ channels' \in Seq(Channel) /\ Len(channels') = Len(channels) + 1
      /\ healthy' \in Seq(BOOLEAN) /\ Len(healthy') = Len(healthy) + 1
      /\ Len(channels) \in Nat
  BY DEF TypeOK, CreateChannel
<1>2. Registered \subseteq Registered' /\ 0..Len(channels) \subseteq (0..Len(channels))'
  BY <1>1 DEF Registered
<1>3. \A d \in Registered : channels'[d] = channels[d] /\ healthy'[d] = healthy[d]
  <2>1. channels' = Append(channels, c) /\ healthy' = Append(healthy, TRUE)
    BY DEF CreateChannel
  <2>2. channels \in Seq(Channel) /\ healthy \in Seq(BOOLEAN) /\ Len(healthy) = Len(channels)
    BY DEF TypeOK
  <2>3. \A d \in Registered : channels'[d] = channels[d]
    BY <2>1, <2>2, AppendKeeps DEF Registered
  <2>4. \A d \in Registered : healthy'[d] = healthy[d]
    BY <2>1, <2>2, AppendKeeps, TRUE \in BOOLEAN DEF Registered
  <2>5. QED
    BY <2>3, <2>4
<1>4. candidates' \in [Picks -> SUBSET Registered'] /\ down' \in [Picks -> SUBSET Registered']
  BY <1>2 DEF TypeOK, CreateChannel, picks
<1>5. picked' \in [Picks -> Registered' \cup {None}] /\ known' \in [Picks -> (0..Len(channels))']
  BY <1>2 DEF TypeOK, CreateChannel, picks
<1>6. QED
  BY <1>1, <1>2, <1>3, <1>4, <1>5 DEF TypeOK, CreateChannel, picks, RegistryGrows

LEMMA MarkType ==
    ASSUME TypeOK, NEW c \in Registered, MarkUnhealthy(c)
    PROVE  RegistryGrows /\ TypeOK'
<1>1. /\ healthy' \in Seq(BOOLEAN) /\ Len(healthy') = Len(healthy)
      /\ \A d \in Registered : healthy'[d] => healthy[d]
  BY DEF TypeOK, MarkUnhealthy, Registered
<1>2. channels' = channels /\ Registered' = Registered
  BY DEF MarkUnhealthy, Registered
<1>3. QED
  BY <1>1, <1>2 DEF TypeOK, MarkUnhealthy, picks, RegistryGrows

LEMMA PickType ==
    ASSUME TypeOK, NEW k \in Picks, UnknownModel(k) \/ Look(k) \/ NoneLeft(k) \/ Choose(k)
    PROVE  UNCHANGED registry /\ TypeOK'
<1>1. UNCHANGED registry /\ Registered' = Registered
  BY DEF UnknownModel, Look, NoneLeft, Choose, registry, Registered
<1>2. CASE UnknownModel(k) \/ NoneLeft(k)
  BY <1>1, <1>2 DEF UnknownModel, NoneLeft, TypeOK, registry
<1>3. CASE Look(k)
  <2>1. Len(channels) \in 0..Len(channels)
    BY DEF TypeOK
  <2>2. Candidates(ProviderOf[model[k]]) \in SUBSET Registered
    BY DEF Candidates
  <2>3. QED
    BY <1>1, <1>3, <2>1, <2>2 DEF Look, TypeOK, registry
<1>4. CASE Choose(k)
  <2>1. Drawn(Tier(candidates[k])) \subseteq Registered
    BY DEF Drawn, Tier, TypeOK
  <2>2. QED
    BY <1>1, <1>4, <2>1 DEF Choose, TypeOK, registry
<1>5. QED
  BY <1>1, <1>2, <1>3, <1>4

LEMMA StutterType ==
    ASSUME TypeOK, UNCHANGED vars
    PROVE  TypeOK'
  BY DEF TypeOK, vars, registry, picks, Registered

-----------------------------------------------------------------------------
(* As the registry grows and loses channels, what a pick saw stays what it *)
(* is, and the choice from it as well.                                     *)
LEMMA SeenStays ==
    ASSUME TypeOK, RegistryGrows, UNCHANGED picks, NEW k \in Picks
    PROVE  Seen(k)' = Seen(k) /\ Drawn(Tier(Seen(k)))' = Drawn(Tier(Seen(k)))
<1>1. 1..known[k] \subseteq Registered
  BY DEF TypeOK, Registered
<1>2. Seen(k)' = Seen(k)
  BY <1>1 DEF Seen, RegistryGrows, picks
<1>3. \A c \in Seen(k) : channels'[c] = channels[c]
  BY SeenIsRegistered DEF RegistryGrows
<1>4. Tier(Seen(k))' = Tier(Seen(k))
  BY <1>2, <1>3 DEF Tier
<1>5. \A c \in Tier(Seen(k)) : channels'[c] = channels[c]
  BY <1>3 DEF Tier
<1>6. Drawn(Tier(Seen(k)))' = Drawn(Tier(Seen(k)))
  BY <1>4, <1>5 DEF Drawn
<1>7. QED
  BY <1>2, <1>6

LEMMA RegistryKeeps ==
    ASSUME IInv, RegistryGrows, TypeOK', UNCHANGED picks
    PROVE  IInv'
<1> USE DEF IInv, picks
<1>1. SeenCandidates'
  BY SeenStays DEF SeenCandidates
<1>2. MarkedStayMarked'
  BY DEF MarkedStayMarked, RegistryGrows, TypeOK
<1>3. NotLooked'
  BY DEF NotLooked
<1>4. PickedAsSeen'
  BY SeenStays DEF PickedAsSeen
<1>5. QED
  BY <1>1, <1>2, <1>3, <1>4

-----------------------------------------------------------------------------
LEMMA LookKeeps ==
    ASSUME IInv, NEW k \in Picks, Look(k), TypeOK'
    PROVE  IInv'
<1> USE DEF IInv
<1>1. /\ candidates'[k] = Candidates(ProviderOf[model[k]])
      /\ known'[k] = Len(channels)
      /\ down'[k] = {c \in Registered : ~healthy[c]}
      /\ pc'[k] = "looked"
      /\ UNCHANGED <<registry, model, picked>>
  BY DEF Look, TypeOK
<1>2. \A q \in Picks \ {k} :
        /\ candidates'[q] = candidates[q] /\ known'[q] = known[q]
        /\ down'[q] = down[q] /\ pc'[q] = pc[q]
  BY DEF Look, TypeOK
<1>3. \A q \in Picks \ {k} : Seen(q)' = Seen(q)
  BY <1>1, <1>2 DEF Seen, registry
<1>4. Seen(k)' = Candidates(ProviderOf[model[k]])
  BY <1>1 DEF Seen, Candidates, Registered, registry
<1>5. SeenCandidates'
  BY <1>1, <1>2, <1>3, <1>4 DEF SeenCandidates
<1>6. MarkedStayMarked'
  BY <1>1, <1>2 DEF MarkedStayMarked, registry
<1>7. NotLooked'
  BY <1>1, <1>2 DEF NotLooked
<1>8. PickedAsSeen'
  <2>1. picked'[k] = None
    BY <1>1 DEF Look, NotLooked
  <2>2. \A q \in Picks \ {k} : Drawn(Tier(Seen(q)))' = Drawn(Tier(Seen(q)))
    BY <1>1, <1>3 DEF Drawn, Tier, registry
  <2>3. QED
    BY <1>1, <1>2, <1>3, <2>1, <2>2 DEF PickedAsSeen
<1>9. QED
  BY <1>5, <1>6, <1>7, <1>8

LEMMA ReturnKeeps ==
    ASSUME IInv, NEW k \in Picks, UnknownModel(k) \/ NoneLeft(k) \/ Choose(k), TypeOK'
    PROVE  IInv'
<1> USE DEF IInv
<1>1. /\ UNCHANGED <<registry, model, candidates, known, down>>
      /\ pc'[k] = "returned"
      /\ \A q \in Picks \ {k} : pc'[q] = pc[q] /\ picked'[q] = picked[q]
  BY DEF UnknownModel, NoneLeft, Choose, TypeOK
<1>2. \A q \in Picks : Seen(q)' = Seen(q) /\ Drawn(Tier(Seen(q)))' = Drawn(Tier(Seen(q)))
  BY <1>1 DEF Seen, Drawn, Tier, registry
<1>3. SeenCandidates'
  BY <1>1, <1>2 DEF SeenCandidates
<1>4. MarkedStayMarked'
  BY <1>1 DEF MarkedStayMarked, registry
<1>5. NotLooked'
  BY <1>1 DEF NotLooked
<1>6. PickedAsSeen'
  <2>1. CASE UnknownModel(k)
    <3>1. picked' = picked /\ picked[k] = None /\ known[k] = 0
      BY <2>1 DEF UnknownModel, NotLooked
    <3>2. Seen(k) = {}
      BY <3>1 DEF Seen
    <3>3. QED
      BY <1>1, <1>2, <3>1, <3>2 DEF PickedAsSeen
  <2>2. CASE NoneLeft(k)
    <3>1. picked' = picked /\ Seen(k) = {}
      BY <2>2 DEF NoneLeft, SeenCandidates
    <3>2. QED
      BY <1>1, <1>2, <3>1 DEF PickedAsSeen
  <2>3. CASE Choose(k)
    <3>1. picked'[k] \in Drawn(Tier(Seen(k)))
      BY <2>3 DEF Choose, TypeOK, SeenCandidates
    <3>2. picked'[k] # None
      BY <3>1, SeenIsRegistered, RegistryAssumption DEF Drawn, Tier, Registered
    <3>3. QED
      BY <1>1, <1>2, <3>1, <3>2 DEF PickedAsSeen
  <2>4. QED
    BY <2>1, <2>2, <2>3
<1>7. QED
  BY <1>3, <1>4, <1>5, <1>6

-----------------------------------------------------------------------------
LEMMA InitInv == Init => IInv
<1> SUFFICES ASSUME Init PROVE IInv
  OBVIOUS
<1>1. TypeOK
  BY DEF Init, TypeOK, Registered
<1>2. \A k \in Picks : Seen(k) = {}
  BY DEF Init, Seen
<1>3. QED
  BY <1>1, <1>2 DEF Init, IInv, SeenCandidates, MarkedStayMarked, NotLooked, PickedAsSeen

LEMMA InvStep ==
    ASSUME IInv, [Next]_vars
    PROVE  IInv'
<1> USE DEF IInv
<1>1. ASSUME NEW c \in Channel, CreateChannel(c)
      PROVE  IInv'
  BY <1>1, CreateType, RegistryKeeps DEF CreateChannel
<1>2. ASSUME NEW c \in Registered, MarkUnhealthy(c)
      PROVE  IInv'
  BY <1>2, MarkType, RegistryKeeps DEF MarkUnhealthy
<1>3. ASSUME NEW k \in Picks, UnknownModel(k) \/ Look(k) \/ NoneLeft(k) \/ Choose(k)
      PROVE  IInv'
  BY <1>3, PickType, LookKeeps, ReturnKeeps
<1>4. CASE UNCHANGED vars
  <2>1. RegistryGrows /\ TypeOK' /\ UNCHANGED picks
    BY <1>4, StutterType DEF vars, registry, RegistryGrows, Registered
  <2>2. QED
    BY <2>1, RegistryKeeps
<1>5. QED
  BY <1>1, <1>2, <1>3, <1>4 DEF Next

LEMMA Invariance == Spec => []IInv
  BY InitInv, InvStep, PTL DEF Spec

-----------------------------------------------------------------------------
(* However channels are registered and marked beside the picks, every      *)
(* channel has its health and every pick is of a registered channel.       *)
THEOREM RegistryTypeCorrect == Spec => []TypeOK
  BY Invariance, PTL DEF IInv

(* A pick releases the lock before it chooses (channels.py,                *)
(* pick_channel_for): whatever happens meanwhile, it returns what one that *)
(* held the lock throughout could have returned when this one looked.      *)
THEOREM PicksAreAtomic == Spec => []PickedAsSeen
  BY Invariance, PTL DEF IInv

(* No standby is picked while a channel of its model that was registered   *)
(* when the pick looked, and comes before it, is up.                       *)
THEOREM StandbysAlwaysWait == Spec => []StandbysWait
<1>1. ASSUME IInv
      PROVE  StandbysWait
  <2> SUFFICES ASSUME NEW k \in Picks, picked[k] # None, NEW d \in StillUp(k)
               PROVE  /\ channels[picked[k]].priority <= channels[d].priority
                      /\ channels[picked[k]].priority = channels[d].priority
                         /\ channels[d].weight > 0
                           => channels[picked[k]].weight > 0
    BY DEF StandbysWait
  <2>1. d \in Seen(k) /\ Seen(k) \in SUBSET Registered /\ picked[k] \in Drawn(Tier(Seen(k)))
    BY <1>1, UpWasSeen, SeenIsRegistered DEF IInv, PickedAsSeen
  <2>2. QED
    BY <1>1, <2>1, DrawnIsBest DEF IInv
<1>2. QED
  BY <1>1, Invariance, PTL

(* A channel that was marked before the pick looked is not returned, and   *)
(* what is returned serves the model.                                      *)
THEOREM FailedAlwaysStayOut == Spec => []FailedStayOut
<1>1. ASSUME IInv
      PROVE  FailedStayOut
  BY <1>1 DEF IInv, PickedAsSeen, FailedStayOut, Drawn, Tier, Seen
<1>2. QED
  BY <1>1, Invariance, PTL

(* None means that no channel of the model, of those registered when the   *)
(* pick looked, is up.                                                     *)
THEOREM NoneAlwaysMeansNone == Spec => []NoneMeansNone
<1>1. ASSUME IInv
      PROVE  NoneMeansNone
  BY <1>1, UpWasSeen DEF IInv, PickedAsSeen, NoneMeansNone
<1>2. QED
  BY <1>1, Invariance, PTL
=============================================================================
