--------------------------- MODULE RealtimeProofs ---------------------------
(***************************************************************************)
(* Proofs about the subscriber, for any connections, users and number of   *)
(* faults.                                                                 *)
(***************************************************************************)
EXTENDS Realtime, TLAPS

-----------------------------------------------------------------------------
(* The inductive invariant.                                                *)

\* detach unregisters first of all.
Unregistered == \A c \in Connections : conn[c] = "detaching" => c \notin registry

\* What the client remembers is what Redis delivers, but for a link that is down.
LinkInv == /\ PositionChannel \in known
           /\ link = "up" => subs = known

\* Somebody sees to it that the alerts of user u are delivered, or two of his
\* calls have crossed.
Served(u) == \/ u \in known \cup crossed
             \/ \E c \in Connections : conn[c] = "attaching" /\ UserOf[c] = u

EveryUserServed == \A u \in RegisteredUsers : Served(u) \/ u \in unheard

\* What _resubscribe does not heal needs no healing.
HealingHeals == \A u \in RegisteredUsers \cap healing : Served(u) \/ u \in channels

\* A user who is registered while an unsubscribe of his waits has crossed it.
CrossedSeen ==
    \A c \in Connections : conn[c] = "detaching" /\ UserOf[c] \in RegisteredUsers => UserOf[c] \in crossed

IInv ==
    /\ TypeOK /\ Unregistered /\ SendersEnd
    /\ LinkInv /\ EveryUserServed /\ HealingHeals /\ CrossedSeen

-----------------------------------------------------------------------------
(* Lemmas about the helpers.                                               *)

LEMMA UserType == \A c \in Connections : UserOf[c] \in Users /\ UserOf[c] # PositionChannel
  BY UserOfAssumption, ChannelAssumption

LEMMA AttachedUsers ==
  ASSUME NEW c \in Connections, registry' = registry \cup {c}
  PROVE  RegisteredUsers' = RegisteredUsers \cup {UserOf[c]}
  BY DEF RegisteredUsers

LEMMA DetachedUsers ==
  ASSUME NEW c \in Connections, registry' = registry \ {c}
  PROVE  /\ RegisteredUsers' \subseteq RegisteredUsers
         /\ IsLastSession(c) => UserOf[c] \notin RegisteredUsers'
<1>1. RegisteredUsers' \subseteq RegisteredUsers BY DEF RegisteredUsers
<1>2. ASSUME IsLastSession(c), UserOf[c] \in RegisteredUsers' PROVE FALSE
  <2>1. PICK x \in registry' : UserOf[x] = UserOf[c] BY <1>2 DEF RegisteredUsers
  <2>2. x \in Sessions(c) /\ x # c BY <2>1 DEF Sessions
  <2> QED BY <1>2, <2>2 DEF IsLastSession
<1> QED BY <1>1, <1>2

LEMMA FirstSession ==
  ASSUME NEW c \in Connections
  PROVE  IsFirstSession(c) <=> UserOf[c] \notin RegisteredUsers
  BY DEF IsFirstSession, Sessions, RegisteredUsers

LEMMA SameUsers == registry' = registry => RegisteredUsers' = RegisteredUsers
  BY DEF RegisteredUsers

-----------------------------------------------------------------------------
(* Types, and connections that are closed.                                 *)

TInv == TypeOK /\ Unregistered /\ SendersEnd

\* What the commands do to the client and to Redis.
LEMMA CommandType ==
  ASSUME TypeOK, NEW S \in SUBSET (Users \cup {PositionChannel}), Subscribe(S) \/ Unsubscribe(S)
  PROVE  link' = "up" /\ subs' \subseteq known' /\ known' \subseteq Users \cup {PositionChannel}
  BY DEF TypeOK, Subscribe, Unsubscribe, Connected

LEMMA TypeStep == TInv /\ [Next]_vars => TInv'
<1> SUFFICES ASSUME TInv, [Next]_vars PROVE TInv'
  OBVIOUS
<1> USE DEF TInv, TypeOK, Unregistered, SendersEnd, Goto, clientVars, readerVars, history
<1>a. /\ MaxFaults \in Nat /\ \A c \in Connections : {UserOf[c]} \in SUBSET (Users \cup {PositionChannel})
      /\ RegisteredUsers \subseteq Users /\ {} \in SUBSET (Users \cup {PositionChannel})
  BY MaxFaultsAssumption, UserType DEF RegisteredUsers
<1>b. Fault => faults' \in 0..MaxFaults BY <1>a DEF Fault
<1>1. ASSUME NEW c \in Connections, Attach(c) PROVE TInv'
  <2>1. /\ conn' = [conn EXCEPT ![c] = "open"] \/ conn' = [conn EXCEPT ![c] = "attaching"]
        /\ registry' = registry \cup {c} /\ senders' = senders \cup {c} /\ conn[c] = "absent"
        /\ crossed' \subseteq crossed \cup {UserOf[c]}
    BY <1>1 DEF Attach
  <2>2. /\ link' \in {"up", "down"} /\ subs' \subseteq known' /\ known' \subseteq Users \cup {PositionChannel}
    BY <1>1, <1>a, CommandType DEF Attach
  <2>3. UNCHANGED <<reader, channels, faults, unheard, healing, unclosed>> BY <1>1 DEF Attach
  <2>4. /\ conn' \in [Connections -> {"absent", "attaching", "open", "detaching", "gone"}]
        /\ registry' \subseteq senders' /\ senders' \subseteq Connections
    BY <2>1
  <2>5. crossed' \subseteq Users BY <2>1, UserType
  <2>6. Unregistered' BY <2>1
  <2>7. SendersEnd' BY <2>1, <2>3
  <2> QED BY <2>2, <2>3, <2>4, <2>5, <2>6, <2>7
<1>2. ASSUME NEW c \in Connections, Subscribed(c) PROVE TInv'
  <2>1. link' = "up" /\ subs' \subseteq known' /\ known' \subseteq Users \cup {PositionChannel}
    BY <1>2, <1>a, CommandType DEF Subscribed
  <2> QED BY <1>2, <2>1 DEF Subscribed
<1>3. ASSUME NEW c \in Connections, SubscribeFails(c) PROVE TInv'
  BY <1>3, <1>b, UserType DEF SubscribeFails
<1>4. ASSUME NEW c \in Connections, Detach(c) PROVE TInv'
  <2>1. /\ registry' = registry \ {c}
        /\ \/ conn' = [conn EXCEPT ![c] = "gone"] /\ senders' = senders \ {c}
           \/ conn' = [conn EXCEPT ![c] = "detaching"] /\ senders' = senders
    BY <1>4 DEF Detach
  <2>2. /\ link' \in {"up", "down"} /\ subs' \subseteq known' /\ known' \subseteq Users \cup {PositionChannel}
    BY <1>4, <1>a, CommandType DEF Detach
  <2>3. UNCHANGED <<reader, channels, faults, unheard, healing, crossed, unclosed>> BY <1>4 DEF Detach
  <2> QED BY <2>1, <2>2, <2>3
<1>5. ASSUME NEW c \in Connections, Unsubscribed(c) PROVE TInv'
  BY <1>5, <1>a, CommandType DEF Unsubscribed
<1>6. ASSUME NEW c \in Connections, UnsubscribeFails(c) PROVE TInv'
  BY <1>6, <1>b DEF UnsubscribeFails
<1>7. CASE LinkDrops BY <1>7, <1>b DEF LinkDrops
<1>8. CASE Reconnect BY <1>8, <1>a, CommandType DEF Reconnect
<1>9. CASE ReadFails BY <1>9, <1>b DEF ReadFails
<1>10. CASE Resubscribe BY <1>10, <1>a DEF Resubscribe
<1>11. CASE Resubscribed BY <1>11, CommandType DEF Resubscribed
<1>12. CASE ResubscribeFails BY <1>12, <1>b DEF ResubscribeFails
<1>13. CASE Stop BY <1>13 DEF Stop
<1>14. CASE UNCHANGED vars BY <1>14 DEF vars
<1> QED BY <1>1, <1>2, <1>3, <1>4, <1>5, <1>6, <1>7, <1>8, <1>9, <1>10, <1>11, <1>12, <1>13, <1>14 DEF Next

-----------------------------------------------------------------------------
(* Every registered user is served.                                        *)

Cover == LinkInv /\ EveryUserServed /\ HealingHeals /\ CrossedSeen

LEMMA CommandLink ==
  ASSUME LinkInv, NEW S, Subscribe(S) \/ (Unsubscribe(S) /\ PositionChannel \notin S)
  PROVE  LinkInv'
  BY DEF LinkInv, Subscribe, Unsubscribe, Connected

LEMMA CoverAttach ==
  ASSUME TInv, Cover, NEW c \in Connections, Attach(c)
  PROVE  Cover'
<1> USE DEF Cover
<1>1. /\ conn' = [conn EXCEPT ![c] = "open"] \/ conn' = [conn EXCEPT ![c] = "attaching"]
      /\ conn[c] = "absent" /\ known \subseteq known' /\ crossed \subseteq crossed'
      /\ UNCHANGED <<channels, unheard, healing>>
  BY DEF Attach, Goto, Subscribe, clientVars, readerVars
<1>2. conn = [x \in Connections |-> conn[x]] BY DEF TInv, TypeOK
<1>3. \A u : Served(u) => Served(u)' BY <1>1, <1>2 DEF Served
<1>4. RegisteredUsers' = RegisteredUsers \cup {UserOf[c]} BY AttachedUsers DEF Attach
<1>5. CASE ~IsFirstSession(c)
  <2>1. RegisteredUsers' = RegisteredUsers BY <1>4, <1>5, FirstSession
  <2>2. UNCHANGED <<link, subs, known>> BY <1>5 DEF Attach, clientVars
  <2>3. LinkInv' BY <2>2 DEF LinkInv
  <2>4. EveryUserServed' BY <1>1, <1>3, <2>1 DEF EveryUserServed
  <2>5. HealingHeals' BY <1>1, <1>3, <2>1 DEF HealingHeals
  <2>6. CrossedSeen' BY <1>1, <1>2, <2>1 DEF CrossedSeen
  <2> QED BY <2>3, <2>4, <2>5, <2>6
<1>6. CASE IsFirstSession(c)
  <2>1. Served(UserOf[c])' BY <1>1, <1>2, <1>6 DEF Attach, Subscribe, Goto, Served
  <2>2. LinkInv' BY <1>6, CommandLink DEF Attach, LinkInv, clientVars
  <2>3. EveryUserServed' BY <1>1, <1>3, <1>4, <2>1 DEF EveryUserServed
  <2>4. HealingHeals' BY <1>1, <1>3, <1>4, <2>1 DEF HealingHeals
  <2>5. CrossedSeen'
    <3> SUFFICES ASSUME NEW x \in Connections, conn'[x] = "detaching", UserOf[x] \in RegisteredUsers'
                 PROVE  UserOf[x] \in crossed'
      BY DEF CrossedSeen
    <3>1. conn[x] = "detaching" BY <1>1, <1>2
    <3>2. CASE UserOf[x] \in RegisteredUsers BY <1>1, <3>1, <3>2 DEF CrossedSeen
    <3>3. CASE UserOf[x] = UserOf[c] BY <1>6, <3>1, <3>3 DEF Attach
    <3> QED BY <1>4, <3>2, <3>3
  <2> QED BY <2>2, <2>3, <2>4, <2>5
<1> QED BY <1>5, <1>6

LEMMA CoverDetach ==
  ASSUME TInv, Cover, NEW c \in Connections, Detach(c)
  PROVE  Cover'
<1> USE DEF Cover
<1>1. /\ conn[c] = "open" /\ UNCHANGED <<channels, unheard, healing, crossed>>
      /\ \/ conn' = [conn EXCEPT ![c] = "gone"]
         \/ IsLastSession(c) /\ conn' = [conn EXCEPT ![c] = "detaching"]
      /\ \/ UNCHANGED <<link, subs, known>>
         \/ IsLastSession(c) /\ Unsubscribe({UserOf[c]})
  BY DEF Detach, Goto, readerVars, history, clientVars
<1>2. conn = [x \in Connections |-> conn[x]] BY DEF TInv, TypeOK
<1>3. /\ RegisteredUsers' \subseteq RegisteredUsers
      /\ IsLastSession(c) => UserOf[c] \notin RegisteredUsers'
  BY DetachedUsers DEF Detach
<1>4. known \ {UserOf[c]} \subseteq known' /\ (~IsLastSession(c) => known' = known)
  BY <1>1 DEF Unsubscribe
<1>5. \A u \in RegisteredUsers' : Served(u) => Served(u)' BY <1>1, <1>2, <1>3, <1>4 DEF Served
<1>6. LinkInv' BY <1>1, UserType, CommandLink DEF LinkInv
<1>7. EveryUserServed' BY <1>1, <1>3, <1>5 DEF EveryUserServed
<1>8. HealingHeals' BY <1>1, <1>3, <1>5 DEF HealingHeals
<1>9. CrossedSeen' BY <1>1, <1>2, <1>3 DEF CrossedSeen
<1> QED BY <1>6, <1>7, <1>8, <1>9

LEMMA CoverStep == TInv /\ Cover /\ [Next]_vars => Cover'
<1> SUFFICES ASSUME TInv, Cover, [Next]_vars PROVE Cover'
  OBVIOUS
<1> USE DEF Cover, Goto, clientVars, readerVars, history
<1>a. conn = [x \in Connections |-> conn[x]] BY DEF TInv, TypeOK
\* A step that only makes more users served.
<1>b. ASSUME RegisteredUsers' = RegisteredUsers, LinkInv', crossed' = crossed,
             \A u \in RegisteredUsers : Served(u) => Served(u)' \/ (u \in unheard' /\ u \notin healing'),
             \A u \in RegisteredUsers \cap unheard : u \in unheard' \/ Served(u)',
             \A u \in RegisteredUsers \cap healing' : \/ u \in healing /\ channels' = channels
                                                    \/ u \in channels',
             \A x \in Connections : conn'[x] = "detaching" => conn[x] = "detaching"
      PROVE  Cover'
  <2>1. EveryUserServed' BY <1>b DEF EveryUserServed
  <2>2. HealingHeals' BY <1>b DEF HealingHeals
  <2>3. CrossedSeen' BY <1>b DEF CrossedSeen
  <2> QED BY <1>b, <2>1, <2>2, <2>3
\* A step of the link or of the reader that calls nothing, or that fails.
<1>c. ASSUME UNCHANGED <<conn, registry, known, unheard, crossed>>, LinkInv',
             \/ UNCHANGED <<channels, healing>>
             \/ healing' = {}
             \/ RegisteredUsers \subseteq channels'
      PROVE  Cover'
  <2>1. RegisteredUsers' = RegisteredUsers BY <1>c, SameUsers
  <2>2. \A u : Served(u) => Served(u)' BY <1>c DEF Served
  <2> QED BY <1>b, <1>c, <2>1, <2>2
<1>1. ASSUME NEW c \in Connections, Attach(c) PROVE Cover'
  BY <1>1, CoverAttach
<1>2. ASSUME NEW c \in Connections, Subscribed(c) PROVE Cover'
  <2>1. UNCHANGED <<registry, channels, unheard, healing, crossed>>
        /\ known' = known \cup {UserOf[c]} /\ conn' = [conn EXCEPT ![c] = "open"]
    BY <1>2 DEF Subscribed, Subscribe
  <2>2. RegisteredUsers' = RegisteredUsers BY <2>1, SameUsers
  <2>3. LinkInv' BY <1>2, CommandLink DEF Subscribed
  <2>4. \A u : Served(u) => Served(u)' BY <1>a, <2>1 DEF Served
  <2>5. \A x \in Connections : conn'[x] = "detaching" => conn[x] = "detaching" BY <1>a, <2>1
  <2> QED BY <1>b, <2>1, <2>2, <2>3, <2>4, <2>5
<1>3. ASSUME NEW c \in Connections, SubscribeFails(c) PROVE Cover'
  <2>1. UNCHANGED <<registry, link, subs, known, channels, crossed>> /\ conn' = [conn EXCEPT ![c] = "gone"]
        /\ unheard' = unheard \cup {UserOf[c]} /\ healing' = healing \ {UserOf[c]}
    BY <1>3 DEF SubscribeFails
  <2>2. RegisteredUsers' = RegisteredUsers BY <2>1, SameUsers
  <2>3. LinkInv' BY <2>1 DEF LinkInv
  <2>4. \A u : Served(u) => Served(u)' \/ u = UserOf[c] BY <1>a, <2>1 DEF Served
  <2>5. \A x \in Connections : conn'[x] = "detaching" => conn[x] = "detaching" BY <1>a, <2>1
  <2> QED BY <1>b, <2>1, <2>2, <2>3, <2>4, <2>5
<1>4. ASSUME NEW c \in Connections, Detach(c) PROVE Cover'
  BY <1>4, CoverDetach
<1>5. ASSUME NEW c \in Connections, Unsubscribed(c) PROVE Cover'
  <2>1. UNCHANGED <<registry, channels, unheard, healing, crossed>> /\ conn[c] = "detaching"
        /\ known' = known \ {UserOf[c]} /\ conn' = [conn EXCEPT ![c] = "gone"]
    BY <1>5 DEF Unsubscribed, Unsubscribe
  <2>2. RegisteredUsers' = RegisteredUsers BY <2>1, SameUsers
  <2>3. LinkInv' BY <1>5, UserType, CommandLink DEF Unsubscribed
  <2>4. UserOf[c] \in RegisteredUsers => UserOf[c] \in crossed BY <2>1 DEF CrossedSeen
  <2>5. \A u \in RegisteredUsers : Served(u) => Served(u)' BY <1>a, <2>1, <2>4 DEF Served
  <2>6. \A x \in Connections : conn'[x] = "detaching" => conn[x] = "detaching" BY <1>a, <2>1
  <2> QED BY <1>b, <2>1, <2>2, <2>3, <2>5, <2>6
<1>6. ASSUME NEW c \in Connections, UnsubscribeFails(c) PROVE Cover'
  <2>1. UNCHANGED <<registry, link, subs, known, channels, unheard, healing, crossed>>
        /\ conn[c] = "detaching" /\ conn' = [conn EXCEPT ![c] = "gone"]
    BY <1>6 DEF UnsubscribeFails
  <2>2. RegisteredUsers' = RegisteredUsers BY <2>1, SameUsers
  <2>3. LinkInv' BY <2>1 DEF LinkInv
  <2>4. \A u : Served(u) => Served(u)' BY <1>a, <2>1 DEF Served
  <2>5. \A x \in Connections : conn'[x] = "detaching" => conn[x] = "detaching" BY <1>a, <2>1
  <2> QED BY <1>b, <2>1, <2>2, <2>3, <2>4, <2>5
<1>7. CASE LinkDrops BY <1>7, <1>c DEF LinkDrops, LinkInv
<1>8. CASE Reconnect
  <2>1. LinkInv' BY <1>8, CommandLink DEF Reconnect
  <2> QED BY <1>8, <1>c, <2>1 DEF Reconnect, Subscribe
<1>9. CASE ReadFails BY <1>9, <1>c DEF ReadFails, LinkInv
<1>10. CASE Resubscribe BY <1>10, <1>c DEF Resubscribe, LinkInv
<1>11. CASE Resubscribed
  <2>1. UNCHANGED <<conn, registry, crossed>> /\ known' = known \cup channels
        /\ unheard' = unheard \ healing /\ healing' = {}
    BY <1>11 DEF Resubscribed, Subscribe
  <2>2. RegisteredUsers' = RegisteredUsers BY <2>1, SameUsers
  <2>3. LinkInv' BY <1>11, CommandLink DEF Resubscribed
  <2>4. \A u : Served(u) \/ u \in channels => Served(u)' BY <2>1 DEF Served
  <2>5. \A u \in RegisteredUsers \cap healing : Served(u)' BY <2>4 DEF HealingHeals
  <2> QED BY <1>b, <2>1, <2>2, <2>3, <2>4, <2>5
<1>12. CASE ResubscribeFails BY <1>12, <1>c DEF ResubscribeFails, LinkInv
<1>13. CASE Stop BY <1>13, <1>c DEF Stop, LinkInv
<1>14. CASE UNCHANGED vars BY <1>14, <1>c DEF vars, LinkInv
<1> QED BY <1>1, <1>2, <1>3, <1>4, <1>5, <1>6, <1>7, <1>8, <1>9, <1>10, <1>11, <1>12, <1>13, <1>14 DEF Next

-----------------------------------------------------------------------------
(* The theorems.                                                           *)

LEMMA Initial == Init => IInv
<1> SUFFICES ASSUME Init PROVE IInv
  OBVIOUS
<1> USE DEF Init
<1>1. TypeOK BY MaxFaultsAssumption DEF TypeOK
<1>2. Unregistered /\ SendersEnd /\ LinkInv BY DEF Unregistered, SendersEnd, LinkInv
<1>3. RegisteredUsers = {} BY DEF RegisteredUsers
<1>4. EveryUserServed /\ HealingHeals /\ CrossedSeen BY <1>3 DEF EveryUserServed, HealingHeals, CrossedSeen
<1> QED BY <1>1, <1>2, <1>4 DEF IInv

LEMMA Inductive == IInv /\ [Next]_vars => IInv'
  BY TypeStep, CoverStep DEF IInv, TInv, Cover

\* The client remembers every channel that Redis delivers, and only the sender
\* of a started connection is registered, through detaches that wait for Redis.
THEOREM TypeCorrect == Spec => []TypeOK
<1>1. IInv => TypeOK BY DEF IInv
<1> QED BY Initial, Inductive, <1>1, PTL DEF Spec

\* Once nothing is under way, Redis delivers the alerts of every registered
\* user whose calls have not crossed and whose subscribe has not failed.
THEOREM RegisteredUsersHear == Spec => []SubscriptionsCoverRegistry
<1>1. IInv => SubscriptionsCoverRegistry
  BY DEF IInv, SubscriptionsCoverRegistry, AtRest, LinkInv, EveryUserServed, Served
<1> QED BY Initial, Inductive, <1>1, PTL DEF Spec

\* The sender of an unregistered connection is stopped, unless its unsubscribe
\* waits or has raised.
THEOREM SendersAreStopped == Spec => []SendersEnd
<1>1. IInv => SendersEnd BY DEF IInv
<1> QED BY Initial, Inductive, <1>1, PTL DEF Spec
=============================================================================
