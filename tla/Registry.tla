------------------------------ MODULE Registry -------------------------------
(***************************************************************************)
(* s10's channel registry with its selection (s10_channel_management/      *)
(* channels.py, and the admin route of code.py that fills it).             *)
(* pick_channel_for collects its candidates under the registry's lock and  *)
(* chooses among them after releasing it, while other threads register     *)
(* channels and mark them unhealthy.  A channel's fields other than its    *)
(* health never change.                                                    *)
(***************************************************************************)
EXTENDS Integers, Sequences

CONSTANTS None,
          Providers, Models,
          ProviderOf,     \* _provider_for_model
          Priorities, Weights,
          Picks,          \* calls of pick_channel_for
          MaxChannels     \* bound on the registry

ASSUME RegistryAssumption ==
    /\ None \notin Providers
    /\ None \notin Nat
    /\ ProviderOf \in [Models -> Providers \cup {None}]
    /\ Priorities \subseteq Int
    /\ Weights \subseteq Int
    /\ MaxChannels \in Nat

VARIABLES channels,     \* in the order of registration
          healthy,      \* per channel
          pc, model,    \* per pick
          candidates,   \* the channels a pick chooses from
          picked,       \* what it returns
          known,        \* how many channels were registered when it looked
          down          \* and which of them were unhealthy

registry == <<channels, healthy>>
picks == <<pc, model, candidates, picked, known, down>>
vars == <<registry, picks>>

Registered == 1..Len(channels)

Channel == [provider : Providers, priority : Priorities, weight : Weights]

Init ==
    /\ channels = <<>>
    /\ healthy = <<>>
    /\ pc = [k \in Picks |-> "idle"]
    /\ model \in [Picks -> Models]
    /\ candidates = [k \in Picks |-> {}]
    /\ picked = [k \in Picks |-> None]
    /\ known = [k \in Picks |-> 0]
    /\ down = [k \in Picks |-> {}]

-----------------------------------------------------------------------------
(* A fault for the mutation runs: a channel without its `healthy'.         *)
CreateWithoutHealth(c) ==
    /\ Len(channels) < MaxChannels
    /\ channels' = Append(channels, c)
    /\ UNCHANGED <<healthy, picks>>

(* Turned away with 401 or 403 an admin request changes nothing.           *)
CreateChannel(c) ==
    /\ Len(channels) < MaxChannels
    /\ channels' = Append(channels, c)
    /\ healthy' = Append(healthy, TRUE)
    /\ UNCHANGED picks

MarkUnhealthy(c) ==
    /\ c \in Registered
    /\ healthy' = [healthy EXCEPT ![c] = FALSE]
    /\ UNCHANGED <<channels, picks>>

-----------------------------------------------------------------------------
(* Faults for the mutation runs: health not looked at, weight 0 left out   *)
(* like an unhealthy channel, and the highest priority number preferred.   *)
Matching(p) == {c \in Registered : channels[c].provider = p}

Weighted(p) == {c \in Registered :
    healthy[c] /\ channels[c].provider = p /\ channels[c].weight > 0}

LastTier(cs) == {c \in cs : \A d \in cs : channels[c].priority >= channels[d].priority}

-----------------------------------------------------------------------------
(* Nothing ever clears `enabled'.                                          *)
Candidates(p) == {c \in Registered : healthy[c] /\ channels[c].provider = p}

Tier(cs) == {c \in cs : \A d \in cs : channels[c].priority <= channels[d].priority}

(* random.choices never returns an item of weight 0; a tier without any    *)
(* positive weight is drawn from evenly.                                   *)
Drawn(tier) ==
    LET positive == {c \in tier : channels[c].weight > 0}
    IN  IF positive = {} THEN tier ELSE positive

(* No provider serves the model.                                           *)
UnknownModel(k) ==
    /\ pc[k] = "idle"
    /\ ProviderOf[model[k]] = None
    /\ pc' = [pc EXCEPT ![k] = "returned"]
    /\ UNCHANGED <<registry, model, candidates, picked, known, down>>

(* The part of pick_channel_for under the lock.                            *)
Look(k) ==
    /\ pc[k] = "idle"
    /\ ProviderOf[model[k]] # None
    /\ pc' = [pc EXCEPT ![k] = "looked"]
    /\ candidates' = [candidates EXCEPT ![k] = Candidates(ProviderOf[model[k]])]
    /\ known' = [known EXCEPT ![k] = Len(channels)]
    /\ down' = [down EXCEPT ![k] = {c \in Registered : ~healthy[c]}]
    /\ UNCHANGED <<registry, model, picked>>

NoneLeft(k) ==
    /\ pc[k] = "looked"
    /\ candidates[k] = {}
    /\ pc' = [pc EXCEPT ![k] = "returned"]
    /\ UNCHANGED <<registry, model, candidates, picked, known, down>>

Choose(k) ==
    /\ pc[k] = "looked"
    /\ \E c \in Drawn(Tier(candidates[k])) : picked' = [picked EXCEPT ![k] = c]
    /\ pc' = [pc EXCEPT ![k] = "returned"]
    /\ UNCHANGED <<registry, model, candidates, known, down>>

Next ==
    \/ \E c \in Channel : CreateChannel(c)
    \/ \E c \in Registered : MarkUnhealthy(c)
    \/ \E k \in Picks : UnknownModel(k) \/ Look(k) \/ NoneLeft(k) \/ Choose(k)

Spec == Init /\ [][Next]_vars

-----------------------------------------------------------------------------
(* Type invariant.                                                         *)
TypeOK ==
    /\ channels \in Seq(Channel)
    /\ healthy \in Seq(BOOLEAN)
    /\ Len(healthy) = Len(channels)
    /\ pc \in [Picks -> {"idle", "looked", "returned"}]
    /\ model \in [Picks -> Models]
    /\ candidates \in [Picks -> SUBSET Registered]
    /\ picked \in [Picks -> Registered \cup {None}]
    /\ known \in [Picks -> 0..Len(channels)]
    /\ down \in [Picks -> SUBSET Registered]

(* The channels a pick could have returned and that still serve its model. *)
StillUp(k) == {d \in 1..known[k] :
    healthy[d] /\ channels[d].provider = ProviderOf[model[k]]}

(* A standby serves only while every channel before it is out (README.md   *)
(* of s10: a backup gets no traffic until the primaries are all down), and *)
(* a channel of weight 0 only if no channel of its tier has a weight.      *)
(* Channels that went down since the pick looked excuse nothing: the ones  *)
(* that are up even now were all passed over rightly.                      *)
StandbysWait == \A k \in Picks : picked[k] # None =>
    \A d \in StillUp(k) :
        /\ channels[picked[k]].priority <= channels[d].priority
        /\ channels[picked[k]].priority = channels[d].priority /\ channels[d].weight > 0
             => channels[picked[k]].weight > 0

(* A channel marked before the pick looked is never returned, and one that *)
(* is returned serves the model.                                           *)
FailedStayOut == \A k \in Picks : picked[k] # None =>
    /\ picked[k] \notin down[k]
    /\ channels[picked[k]].provider = ProviderOf[model[k]]

(* A pick comes back empty-handed only if nothing could serve it.          *)
NoneMeansNone == \A k \in Picks :
    pc[k] = "returned" /\ picked[k] = None => StillUp(k) = {}
=============================================================================
