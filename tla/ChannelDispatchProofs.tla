------------------------- MODULE ChannelDispatchProofs -------------------------
(***************************************************************************)
(* For any channels and descriptors, if no channel is retired unused: the  *)
(* poller's structures agree, and none of its assertions fails.  If also   *)
(* no callback closes a connection other than its own, a turn of the loop  *)
(* uses the poller as PollPoller says, a handler runs only on a descriptor *)
(* of its own, and no channel is destroyed while it waits for its turn in  *)
(* the walk.                                                               *)
(***************************************************************************)
EXTENDS ChannelDispatch, SequenceTheorems, FiniteSetTheorems, TLAPS

Entry == [fd : Fds \cup {NoFd}, events : SUBSET Events]

(* The poller *)

(* A living channel has a descriptor of its own; one that waits for        *)
(* nothing is not registered, or is about to be removed.                   *)
LivesOK ==
  /\ \A c \in Channels : life[c] = "alive" => fd[c] \in Fds
  /\ \A c, d \in Channels : life[c] = "alive" /\ life[d] = "alive" /\ fd[c] = fd[d] => c = d
  /\ \A c \in Channels : life[c] = "unborn" => idxPoll[c] = NoIdx
  /\ \A c \in Channels : ~Registered(c) => events[c] = {}
  /\ \A c \in Channels : Registered(c) => (events[c] = {} <=> c = retiring)
  /\ retiring # None => Registered(retiring)

(* The map leads from a descriptor to the registered channel that has it.  *)
MapOK ==
  \A f \in Fds : channels[f] # None => Registered(channels[f]) /\ fd[channels[f]] = f

PollInv == IndexConsistent /\ NoAssertFails /\ LivesOK /\ MapOK

(* What the other conjuncts of PollInv say of a registered channel. *)
EntryOf(c) ==
  /\ channels[fd[c]] = c
  /\ idxPoll[c] \in 1 .. Len(pollFds)
  /\ pollFds[idxPoll[c]] = [fd |-> IF c = retiring THEN NoFd ELSE fd[c], events |-> events[c]]

LEMMA EntriesOK ==
  ASSUME PollInv
  PROVE  /\ pollFds \in Seq(Entry) /\ Len(pollFds) \in Nat
         /\ DOMAIN pollFds = 1 .. Len(pollFds)
         /\ \A c \in Channels : Registered(c) => EntryOf(c)
         /\ \A i \in 1 .. Len(pollFds) : \E c \in Channels : Registered(c) /\ idxPoll[c] = i
<1>1. pollFds \in Seq(Entry)
  BY DEF PollInv, IndexConsistent, TypeOK, Entry
<1>2. Len(pollFds) \in Nat /\ DOMAIN pollFds = 1 .. Len(pollFds)
  BY <1>1
<1> QED
  BY <1>1, <1>2 DEF PollInv, IndexConsistent, EntryOf

(* Two registered channels have two entries. *)
LEMMA EntriesDiffer ==
  ASSUME PollInv, NEW c \in Channels, NEW d \in Channels, Registered(c), Registered(d),
         idxPoll[c] = idxPoll[d]
  PROVE  c = d
<1>1. EntryOf(c) /\ EntryOf(d)
  BY EntriesOK
<1>2. life[c] = "alive" /\ life[d] = "alive" /\ fd[c] \in Fds /\ fd[d] \in Fds
  BY DEF PollInv, LivesOK, Registered
<1>3. CASE c = retiring \/ d = retiring
  BY <1>1, <1>2, <1>3, NoFdAssumption DEF EntryOf
<1>4. CASE c # retiring /\ d # retiring
  BY <1>1, <1>2, <1>4 DEF EntryOf, PollInv, LivesOK
<1> QED
  BY <1>3, <1>4

LEMMA InitPollInv == Init => PollInv
<1> SUFFICES ASSUME Init PROVE PollInv
  OBVIOUS
<1>1. pollFds \in Seq(Entry) /\ DOMAIN pollFds = {}
  BY EmptySeq DEF Init
<1>2. aborted \in BOOLEAN /\ ~aborted
  BY DEF Init
<1>3. TypeOK
  BY <1>1, <1>2, NoneAssumption DEF Init, TypeOK, Entry, NoIdx
<1> QED
  BY <1>1, <1>2, <1>3, NoneAssumption DEF Init, PollInv, IndexConsistent, NoAssertFails, LivesOK, MapOK,
    Registered
-----------------------------------------------------------------------------
(* A living channel not being retired passes updateChannel's assertions,   *)
(* whether it is new to the poller or not.                                 *)
LEMMA UpdateSafe ==
  ASSUME PollInv, NEW c \in Channels, life[c] = "alive"
  PROVE  UpdateAsserts(c)
<1>1. CASE idxPoll[c] = NoIdx
  <2>1. ~Registered(c) /\ fd[c] \in Fds
    BY <1>1 DEF Registered, PollInv, LivesOK
  <2>2. ASSUME channels[fd[c]] # None PROVE FALSE
    <3> DEFINE d == channels[fd[c]]
    <3>1. d \in Channels /\ Registered(d) /\ fd[d] = fd[c]
      BY <2>1, <2>2 DEF PollInv, MapOK, IndexConsistent, TypeOK
    <3> HIDE DEF d
    <3>2. d = c
      BY <3>1 DEF Registered, PollInv, LivesOK
    <3> QED
      BY <2>1, <3>1, <3>2
  <2> QED
    BY <1>1, <2>2 DEF UpdateAsserts
<1>2. CASE idxPoll[c] # NoIdx
  <2>1. EntryOf(c)
    BY <1>2, EntriesOK DEF Registered
  <2>2. pollFds[idxPoll[c]].fd \in {fd[c], NoFd}
    BY <2>1 DEF EntryOf
  <2> QED
    BY <1>2, <2>1, <2>2 DEF EntryOf, UpdateAsserts
<1> QED
  BY <1>1, <1>2

LEMMA EnablePollInv ==
  ASSUME PollInv, NEW c \in Channels, NEW new \in SUBSET Events, new # {},
         Ready, life[c] = "alive", UpdateChannel(c, new), UNCHANGED <<fd, life, retiring>>
  PROVE  PollInv'
<1>0. UpdateAsserts(c) /\ c # None /\ retiring = None
  BY UpdateSafe, NoneAssumption DEF Ready
<1>1. /\ events' = [events EXCEPT ![c] = new]
      /\ AddEntry(c, new) \/ ChangeEntry(c, new)
      /\ UNCHANGED <<active, aborted>>
  BY <1>0 DEF UpdateChannel
<1>t. /\ TypeOK /\ ~aborted /\ LivesOK /\ MapOK
      /\ pollFds \in Seq(Entry) /\ Len(pollFds) \in Nat /\ DOMAIN pollFds = 1 .. Len(pollFds)
  BY EntriesOK DEF PollInv, IndexConsistent, NoAssertFails
<1>f. fd[c] \in Fds /\ \A d \in Channels : life[d] = "alive" /\ fd[d] = fd[c] => d = c
  BY <1>t DEF LivesOK
<1>2. CASE AddEntry(c, new)
  <2> DEFINE n == Len(pollFds) + 1
             entry == [fd |-> fd[c], events |-> new]
  <2>1. /\ idxPoll[c] = NoIdx /\ pollFds' = Append(pollFds, entry)
        /\ idxPoll' = [idxPoll EXCEPT ![c] = n]
        /\ channels' = [channels EXCEPT ![fd[c]] = c]
    BY <1>2 DEF AddEntry
  <2>2. entry \in Entry
    BY <1>f DEF Entry
  <2> HIDE DEF entry
  <2>3. /\ pollFds' \in Seq(Entry) /\ DOMAIN pollFds' = 1 .. n /\ Len(pollFds') = n
        /\ \A i \in 1 .. Len(pollFds) : pollFds'[i] = pollFds[i]
        /\ pollFds'[n] = entry
    BY <1>t, <2>1, <2>2, AppendProperties
  <2>4. n \in Nat /\ n # NoIdx
    BY <1>t DEF NoIdx
  <2> HIDE DEF n
  <2>5. TypeOK'
    BY <1>1, <1>t, <1>f, <2>1, <2>3, <2>4, NoneAssumption DEF TypeOK, Entry
  <2>6. /\ \A d \in Channels \ {c} : /\ Registered(d)' <=> Registered(d)
                                     /\ idxPoll'[d] = idxPoll[d] /\ events'[d] = events[d]
                                     /\ Registered(d) => fd[d] # fd[c] /\ fd[d] \in Fds
        /\ Registered(c)' /\ idxPoll'[c] = n /\ events'[c] = new
    BY <1>1, <1>t, <1>f, <2>1, <2>4 DEF TypeOK, Registered, LivesOK
  <2>7. ASSUME NEW d \in Channels, Registered(d)' PROVE EntryOf(d)'
    <3>1. CASE d = c
      BY <1>0, <1>t, <1>f, <2>1, <2>3, <2>4, <2>6, <3>1 DEF EntryOf, TypeOK, n, entry
    <3>2. CASE d # c
      <4>1. EntryOf(d) /\ fd[d] # fd[c] /\ fd[d] \in Fds
        BY <2>6, <2>7, <3>2, EntriesOK
      <4> QED
        BY <1>t, <2>1, <2>3, <2>6, <3>2, <4>1 DEF EntryOf, TypeOK, n
    <3> QED
      BY <3>1, <3>2
  <2>8. ASSUME NEW i \in 1 .. n PROVE \E d \in Channels : Registered(d)' /\ idxPoll'[d] = i
    <3>1. CASE i = n
      BY <2>6, <3>1
    <3>2. CASE i # n
      <4>1. i \in 1 .. Len(pollFds)
        BY <1>t, <3>2 DEF n
      <4>2. PICK d \in Channels : Registered(d) /\ idxPoll[d] = i
        BY <4>1, EntriesOK
      <4>3. d # c
        BY <2>1, <4>1, <4>2 DEF NoIdx
      <4> QED
        BY <2>6, <4>2, <4>3
    <3> QED
      BY <3>1, <3>2
  <2>9. IndexConsistent'
    <3>1. \A d \in Channels : Registered(d)' =>
            /\ channels'[fd'[d]] = d
            /\ idxPoll'[d] \in DOMAIN pollFds'
            /\ pollFds'[idxPoll'[d]] =
                 [fd |-> IF d = retiring' THEN NoFd ELSE fd'[d], events |-> events'[d]]
      BY <2>3, <2>7 DEF EntryOf
    <3> QED
      BY <2>3, <2>5, <2>8, <3>1 DEF IndexConsistent
  <2>10. LivesOK'
    BY <1>t, <1>0, <2>6 DEF LivesOK, Registered
  <2>11. MapOK'
    BY <1>t, <1>f, <2>1, <2>6 DEF MapOK, TypeOK
  <2> QED
    BY <1>1, <1>t, <2>9, <2>10, <2>11 DEF PollInv, NoAssertFails
<1>3. CASE ChangeEntry(c, new)
  <2> DEFINE i == idxPoll[c]
             entry == [fd |-> pollFds[i].fd, events |-> new]
  <2>1. /\ idxPoll[c] # NoIdx /\ pollFds' = [pollFds EXCEPT ![i] = entry]
        /\ UNCHANGED <<idxPoll, channels>>
    BY <1>3 DEF ChangeEntry
  <2>2. Registered(c) /\ EntryOf(c)
    BY <2>1, EntriesOK DEF Registered
  <2>3. i \in 1 .. Len(pollFds) /\ entry = [fd |-> fd[c], events |-> new] /\ entry \in Entry
    BY <1>0, <1>f, <2>2 DEF EntryOf, Entry
  <2> HIDE DEF entry
  <2>4. /\ pollFds' \in Seq(Entry) /\ DOMAIN pollFds' = 1 .. Len(pollFds)
        /\ Len(pollFds') = Len(pollFds)
        /\ pollFds'[i] = entry
        /\ \A j \in 1 .. Len(pollFds) : j # i => pollFds'[j] = pollFds[j]
    BY <1>t, <2>1, <2>3
  <2>5. TypeOK'
    BY <1>1, <1>t, <2>1, <2>4 DEF TypeOK, Entry
  <2>6. /\ \A d \in Channels : Registered(d)' <=> Registered(d)
        /\ \A d \in Channels \ {c} : events'[d] = events[d]
        /\ events'[c] = new
    BY <1>1, <1>t, <2>1 DEF TypeOK, Registered
  <2>7. ASSUME NEW d \in Channels, Registered(d)' PROVE EntryOf(d)'
    <3>1. CASE d = c
      BY <1>0, <2>1, <2>2, <2>3, <2>4, <2>6, <3>1 DEF EntryOf
    <3>2. CASE d # c
      <4>1. EntryOf(d) /\ idxPoll[d] # i
        BY <2>2, <2>6, <2>7, <3>2, EntriesOK, EntriesDiffer
      <4> QED
        BY <2>1, <2>4, <2>6, <3>2, <4>1 DEF EntryOf
    <3> QED
      BY <3>1, <3>2
  <2>8. \A j \in 1 .. Len(pollFds) : \E d \in Channels : Registered(d)' /\ idxPoll'[d] = j
    BY <2>1, <2>6, EntriesOK
  <2>9. IndexConsistent'
    BY <2>4, <2>5, <2>7, <2>8 DEF IndexConsistent, EntryOf
  <2>10. LivesOK'
    BY <1>t, <1>0, <2>1, <2>2, <2>6 DEF LivesOK, Registered
  <2>11. MapOK'
    BY <1>t, <2>1, <2>6 DEF MapOK, TypeOK
  <2> QED
    BY <1>1, <1>t, <2>9, <2>10, <2>11 DEF PollInv, NoAssertFails
<1> QED
  BY <1>1, <1>2, <1>3

LEMMA ConstructPollInv ==
  ASSUME PollInv, NEW c \in Channels, NEW f \in Fds, Construct(c, f)
  PROVE  PollInv'
<1>1. /\ life[c] = "unborn" /\ retiring = None
      /\ \A d \in Channels : life[d] = "alive" => fd[d] # f
      /\ life' = [life EXCEPT ![c] = "alive"] /\ fd' = [fd EXCEPT ![c] = f]
      /\ UNCHANGED <<pollFds, channels, events, idxPoll, retiring, active, aborted>>
  BY DEF Construct, Ready
<1>2. /\ TypeOK /\ LivesOK /\ MapOK /\ IndexConsistent /\ NoAssertFails
      /\ idxPoll[c] = NoIdx /\ ~Registered(c) /\ events[c] = {}
  BY <1>1 DEF PollInv, LivesOK, IndexConsistent, Registered
<1>3. /\ \A d \in Channels : Registered(d)' <=> Registered(d)
      /\ \A d \in Channels : Registered(d) => d # c /\ fd'[d] = fd[d]
      /\ \A d \in Channels \ {c} : fd'[d] = fd[d] /\ life'[d] = life[d]
      /\ fd'[c] = f /\ life'[c] = "alive"
  BY <1>1, <1>2 DEF Registered, TypeOK
<1>4. TypeOK'
  <2>1. /\ fd' \in [Channels -> Fds \cup {NoFd}]
        /\ life' \in [Channels -> {"unborn", "alive", "dead"}]
    BY <1>1, <1>2 DEF TypeOK
  <2>2. \A g \in Fds : channels'[g] # None => life'[channels'[g]] = "alive"
    BY <1>1, <1>2, <1>3 DEF TypeOK
  <2> QED
    BY <1>1, <1>2, <2>1, <2>2 DEF TypeOK
<1>5. IndexConsistent'
  <2>1. ASSUME NEW d \in Channels, Registered(d)'
        PROVE  /\ channels'[fd'[d]] = d
               /\ idxPoll'[d] \in DOMAIN pollFds'
               /\ pollFds'[idxPoll'[d]] =
                    [fd |-> IF d = retiring' THEN NoFd ELSE fd'[d], events |-> events'[d]]
    BY <1>1, <1>2, <1>3, <2>1 DEF IndexConsistent
  <2>2. \A i \in DOMAIN pollFds' : \E d \in Channels : Registered(d)' /\ idxPoll'[d] = i
    BY <1>1, <1>2, <1>3 DEF IndexConsistent
  <2> QED
    BY <1>4, <2>1, <2>2 DEF IndexConsistent
<1>6. LivesOK'
  BY <1>1, <1>2, <1>3, NoneAssumption DEF LivesOK
<1>7. MapOK'
  BY <1>1, <1>2, <1>3 DEF MapOK, TypeOK
<1> QED
  BY <1>1, <1>2, <1>5, <1>6, <1>7 DEF PollInv, NoAssertFails

(* The entry of a channel that is to be removed is out of ::poll's sight.  *)
LEMMA DisableEventsPollInv ==
  ASSUME PollInv, NEW c \in Channels, Ready, life[c] = "alive", events[c] # {},
         UpdateChannel(c, {}), retiring' = c, UNCHANGED <<fd, life>>
  PROVE  PollInv'
<1>1. UpdateAsserts(c) /\ c # None /\ retiring = None
  BY UpdateSafe, NoneAssumption DEF Ready
<1>2. /\ TypeOK /\ ~aborted /\ LivesOK /\ MapOK
      /\ pollFds \in Seq(Entry) /\ Len(pollFds) \in Nat /\ DOMAIN pollFds = 1 .. Len(pollFds)
  BY EntriesOK DEF PollInv, IndexConsistent, NoAssertFails
<1>3. Registered(c) /\ EntryOf(c) /\ idxPoll[c] # NoIdx
  BY <1>2, EntriesOK DEF LivesOK, Registered
<1> DEFINE i == idxPoll[c]
           entry == [fd |-> NoFd, events |-> {}]
<1>4. /\ events' = [events EXCEPT ![c] = {}]
      /\ pollFds' = [pollFds EXCEPT ![i] = entry]
      /\ UNCHANGED <<idxPoll, channels, active, aborted>>
  BY <1>1, <1>3 DEF UpdateChannel, AddEntry, ChangeEntry
<1>5. i \in 1 .. Len(pollFds) /\ entry \in Entry
  BY <1>3 DEF EntryOf, Entry
<1> HIDE DEF entry
<1>6. /\ pollFds' \in Seq(Entry) /\ DOMAIN pollFds' = 1 .. Len(pollFds)
      /\ Len(pollFds') = Len(pollFds)
      /\ pollFds'[i] = entry
      /\ \A j \in 1 .. Len(pollFds) : j # i => pollFds'[j] = pollFds[j]
  BY <1>2, <1>4, <1>5
<1>7. TypeOK'
  BY <1>2, <1>4, <1>6 DEF TypeOK, Entry
<1>8. /\ \A d \in Channels : Registered(d)' <=> Registered(d)
      /\ \A d \in Channels \ {c} : events'[d] = events[d]
      /\ events'[c] = {}
  BY <1>2, <1>4 DEF TypeOK, Registered
<1>9. ASSUME NEW d \in Channels, Registered(d)' PROVE EntryOf(d)'
  <2>1. CASE d = c
    BY <1>3, <1>4, <1>6, <1>8, <2>1 DEF EntryOf, entry
  <2>2. CASE d # c
    <3>1. EntryOf(d) /\ idxPoll[d] # i
      BY <1>3, <1>8, <1>9, <2>2, EntriesOK, EntriesDiffer
    <3>2. d # retiring
      BY <1>1, NoneAssumption
    <3> QED
      BY <1>4, <1>6, <1>8, <2>2, <3>1, <3>2 DEF EntryOf
  <2> QED
    BY <2>1, <2>2
<1>10. \A j \in 1 .. Len(pollFds) : \E d \in Channels : Registered(d)' /\ idxPoll'[d] = j
  BY <1>4, <1>8, EntriesOK
<1>11. IndexConsistent'
  BY <1>6, <1>7, <1>9, <1>10 DEF IndexConsistent, EntryOf
<1>12. LivesOK'
  BY <1>1, <1>2, <1>3, <1>4, <1>8, NoneAssumption DEF LivesOK
<1>13. MapOK'
  BY <1>2, <1>4, <1>8 DEF MapOK, TypeOK
<1> QED
  BY <1>2, <1>4, <1>11, <1>12, <1>13 DEF PollInv, NoAssertFails

(* The entries but one, where the last has taken its place. *)
LEMMA WithoutEntryIs ==
  ASSUME PollInv, NEW i \in 1 .. Len(pollFds)
  PROVE  /\ WithoutEntry(i) \in Seq(Entry)
         /\ Len(WithoutEntry(i)) = Len(pollFds) - 1
         /\ \A j \in 1 .. Len(pollFds) - 1 :
              WithoutEntry(i)[j] = IF j = i THEN pollFds[Len(pollFds)] ELSE pollFds[j]
<1> DEFINE n == Len(pollFds)
           t == [pollFds EXCEPT ![i] = pollFds[n]]
<1>1. pollFds \in Seq(Entry) /\ n \in Nat /\ DOMAIN pollFds = 1 .. n
  BY EntriesOK
<1>2. n \in 1 .. n
  BY <1>1
<1>3. /\ t \in Seq(Entry) /\ Len(t) = n
      /\ \A j \in 1 .. n : t[j] = IF j = i THEN pollFds[n] ELSE pollFds[j]
  <2>1. pollFds[n] \in Entry
    BY <1>1, <1>2
  <2> QED
    BY <1>1, <2>1
<1>4. WithoutEntry(i) = SubSeq(t, 1, n - 1)
  BY <1>3 DEF WithoutEntry, Front, Last
<1> HIDE DEF t
<1>5. /\ SubSeq(t, 1, n - 1) \in Seq(Entry) /\ Len(SubSeq(t, 1, n - 1)) = n - 1
      /\ \A j \in 1 .. n - 1 : SubSeq(t, 1, n - 1)[j] = t[j]
  BY <1>1, <1>2, <1>3
<1> QED
  BY <1>1, <1>3, <1>4, <1>5

(* removeChannel finds what it asserts, before it changes anything. *)
LEMMA RemoveSafe ==
  ASSUME PollInv, NEW c \in Channels, retiring = c
  PROVE  /\ Registered(c) /\ EntryOf(c)
         /\ RemoveAsserts(c) /\ FindsAll(idxPoll[c])
         /\ \A d \in Channels : Registered(d) /\ d # c =>
              /\ EntryOf(d) /\ fd[d] \in Fds /\ fd[d] # fd[c] /\ idxPoll[d] # idxPoll[c]
              /\ pollFds[idxPoll[d]].fd = fd[d]
         /\ \A e \in 1 .. Len(pollFds) \ {idxPoll[c]} :
              \E d \in Channels \ {c} : Registered(d) /\ idxPoll[d] = e
<1>1. Registered(c) /\ EntryOf(c) /\ events[c] = {}
  BY NoneAssumption, EntriesOK DEF PollInv, LivesOK
<1>2. RemoveAsserts(c)
  BY <1>1 DEF EntryOf, RemoveAsserts
<1>3. ASSUME NEW d \in Channels, Registered(d), d # c
      PROVE  /\ EntryOf(d) /\ fd[d] \in Fds /\ fd[d] # fd[c] /\ idxPoll[d] # idxPoll[c]
             /\ pollFds[idxPoll[d]].fd = fd[d]
  <2>1. EntryOf(d)
    BY <1>3, EntriesOK
  <2>2. fd[d] \in Fds /\ fd[d] # fd[c]
    BY <1>1, <1>3 DEF PollInv, LivesOK, Registered
  <2>3. idxPoll[d] # idxPoll[c]
    BY <1>1, <1>3, EntriesDiffer
  <2>4. pollFds[idxPoll[d]].fd = fd[d]
    BY <1>3, <2>1 DEF EntryOf
  <2> QED
    BY <2>1, <2>2, <2>3, <2>4
<1>4. ASSUME NEW e \in 1 .. Len(pollFds) \ {idxPoll[c]}
      PROVE  \E d \in Channels \ {c} : Registered(d) /\ idxPoll[d] = e
  BY EntriesOK
<1>5. ASSUME NEW e \in 1 .. Len(pollFds) \ {idxPoll[c]}
      PROVE  pollFds[e].fd \in Fds /\ channels[pollFds[e].fd] # None
  <2>1. PICK d \in Channels \ {c} : Registered(d) /\ idxPoll[d] = e
    BY <1>4
  <2>2. EntryOf(d) /\ fd[d] \in Fds /\ pollFds[idxPoll[d]].fd = fd[d]
    BY <1>3, <2>1
  <2> QED
    BY <2>1, <2>2, NoneAssumption DEF EntryOf
<1>6. Moved(idxPoll[c]) \subseteq {f \in Fds : channels[f] # None}
  <2>1. Len(pollFds) \in 1 .. Len(pollFds)
    BY <1>1, EntriesOK DEF EntryOf
  <2> QED
    BY <1>5, <2>1 DEF Moved, Last
<1> QED
  BY <1>1, <1>2, <1>3, <1>4, <1>5, <1>6 DEF FindsAll

(* The moved channel is told its new index, and no other channel is. *)
LEMMA ReindexIs ==
  ASSUME PollInv, NEW c \in Channels, retiring = c, NEW d \in Channels
  PROVE  Reindex(idxPoll[c])[d] =
           IF Registered(d) /\ d # c /\ idxPoll[d] = Len(pollFds) THEN idxPoll[c] ELSE idxPoll[d]
<1> DEFINE i == idxPoll[c]
           n == Len(pollFds)
<1>1. /\ Registered(c) /\ EntryOf(c)
      /\ \A x \in Channels : Registered(x) /\ x # c =>
           /\ EntryOf(x) /\ fd[x] \in Fds /\ fd[x] # fd[c] /\ idxPoll[x] # i
           /\ pollFds[idxPoll[x]].fd = fd[x]
      /\ \A e \in 1 .. n \ {i} : \E x \in Channels \ {c} : Registered(x) /\ idxPoll[x] = e
  BY RemoveSafe
<1>2. n \in Nat /\ i \in 1 .. n /\ n \in 1 .. n
  BY <1>1, EntriesOK DEF EntryOf
<1>3. Reindex(i)[d] = IF fd[d] \in Moved(i) /\ channels[fd[d]] = d THEN i ELSE idxPoll[d]
  BY DEF Reindex
<1>4. CASE i = n
  BY <1>1, <1>3, <1>4 DEF Moved
<1>5. CASE i # n
  <2>1. PICK x \in Channels \ {c} : Registered(x) /\ idxPoll[x] = n
    BY <1>1, <1>2, <1>5
  <2>2. Moved(i) = {fd[x]} /\ fd[x] \in Fds /\ channels[fd[x]] = x
    BY <1>1, <1>5, <2>1 DEF Moved, Last, EntryOf
  <2>3. Registered(d) /\ d # c /\ idxPoll[d] = n => d = x
    BY <2>1, EntriesDiffer
  <2> QED
    BY <1>3, <2>1, <2>2, <2>3
<1> QED
  BY <1>4, <1>5

LEMMA RetirePollInv ==
  ASSUME PollInv, NEW c \in Channels, Retire(c)
  PROVE  PollInv'
<1> DEFINE i == idxPoll[c]
           n == Len(pollFds)
<1>1. /\ retiring = c /\ retiring' = None
      /\ life' = [life EXCEPT ![c] = "dead"] /\ UNCHANGED fd
      /\ RemoveChannel(c)
  BY DEF Retire
<1>2. /\ Registered(c) /\ EntryOf(c) /\ RemoveAsserts(c) /\ FindsAll(i)
      /\ \A d \in Channels : Registered(d) /\ d # c =>
           /\ EntryOf(d) /\ fd[d] \in Fds /\ fd[d] # fd[c] /\ idxPoll[d] # i
           /\ pollFds[idxPoll[d]].fd = fd[d]
      /\ \A e \in 1 .. n \ {i} : \E d \in Channels \ {c} : Registered(d) /\ idxPoll[d] = e
  BY <1>1, RemoveSafe
<1>3. /\ channels' = [channels EXCEPT ![fd[c]] = None]
      /\ pollFds' = WithoutEntry(i)
      /\ idxPoll' = Reindex(i)
      /\ aborted' = \E j \in DOMAIN pollFds' : idxPoll'[channels'[pollFds'[j].fd]] # j
      /\ UNCHANGED <<events, active>>
  BY <1>1, <1>2 DEF RemoveChannel, Erased
<1>4. /\ TypeOK /\ ~aborted /\ LivesOK /\ MapOK
      /\ pollFds \in Seq(Entry) /\ n \in Nat /\ DOMAIN pollFds = 1 .. n
      /\ i \in 1 .. n
  BY <1>2, EntriesOK DEF PollInv, IndexConsistent, NoAssertFails, EntryOf
<1>5. /\ pollFds' \in Seq(Entry) /\ Len(pollFds') = n - 1 /\ DOMAIN pollFds' = 1 .. n - 1
      /\ \A j \in 1 .. n - 1 : pollFds'[j] = IF j = i THEN pollFds[n] ELSE pollFds[j]
  <2>1. /\ pollFds' \in Seq(Entry) /\ Len(pollFds') = n - 1
        /\ \A j \in 1 .. n - 1 : pollFds'[j] = IF j = i THEN pollFds[n] ELSE pollFds[j]
    BY <1>3, <1>4, WithoutEntryIs
  <2> QED
    BY <2>1
<1>6. \A d \in Channels : idxPoll'[d] =
        IF Registered(d) /\ d # c /\ idxPoll[d] = n THEN i ELSE idxPoll[d]
  BY <1>1, <1>3, ReindexIs
<1>7. /\ \A d \in Channels : Registered(d)' <=> Registered(d) /\ d # c
      /\ \A d \in Channels \ {c} : life'[d] = life[d]
      /\ life'[c] = "dead"
  BY <1>1, <1>2, <1>4, <1>6 DEF Registered, TypeOK, NoIdx
<1>8. TypeOK'
  <2>1. idxPoll' \in [Channels -> Nat]
    <3>1. idxPoll' = [d \in Channels |-> IF fd[d] \in Moved(i) /\ channels[fd[d]] = d
                                           THEN i ELSE idxPoll[d]]
      BY <1>3 DEF Reindex
    <3> QED
      BY <1>4, <3>1 DEF TypeOK
  <2>2. life' \in [Channels -> {"unborn", "alive", "dead"}]
    BY <1>1, <1>4 DEF TypeOK
  <2>3. aborted' \in BOOLEAN
    BY <1>3
  <2>4. channels' \in [Fds -> Channels \cup {None}]
    BY <1>3, <1>4 DEF TypeOK
  <2>5. \A f \in Fds : channels'[f] # None => life'[channels'[f]] = "alive"
    BY <1>2, <1>3, <1>4, <1>7 DEF TypeOK, EntryOf, LivesOK, Registered, MapOK
  <2> QED
    BY <1>1, <1>3, <1>4, <1>5, <2>1, <2>2, <2>3, <2>4, <2>5 DEF TypeOK, Entry
<1>9. ASSUME NEW d \in Channels, Registered(d)' PROVE EntryOf(d)' /\ pollFds'[idxPoll'[d]].fd = fd[d]
  <2>1. Registered(d) /\ d # c /\ d # retiring' /\ EntryOf(d) /\ idxPoll[d] # i /\ idxPoll[d] \in 1 .. n
    BY <1>1, <1>2, <1>7, <1>9, NoneAssumption DEF EntryOf
  <2>2. fd[d] \in Fds /\ channels'[fd'[d]] = d
    BY <1>1, <1>2, <1>3, <1>4, <2>1 DEF EntryOf, TypeOK
  <2>3. idxPoll'[d] \in 1 .. n - 1 /\ pollFds'[idxPoll'[d]] = pollFds[idxPoll[d]]
    <3>1. CASE idxPoll[d] = n
      BY <1>4, <1>5, <1>6, <2>1, <3>1
    <3>2. CASE idxPoll[d] # n
      BY <1>4, <1>5, <1>6, <2>1, <3>2
    <3> QED
      BY <3>1, <3>2
  <2>4. pollFds[idxPoll[d]] = [fd |-> fd[d], events |-> events[d]]
    BY <1>1, <2>1 DEF EntryOf
  <2>5. pollFds'[idxPoll'[d]] = [fd |-> IF d = retiring' THEN NoFd ELSE fd'[d], events |-> events'[d]]
    BY <1>1, <1>3, <2>1, <2>3, <2>4
  <2> QED
    BY <1>5, <2>2, <2>3, <2>4, <2>5 DEF EntryOf
<1>10. ASSUME NEW j \in 1 .. n - 1 PROVE \E d \in Channels : Registered(d)' /\ idxPoll'[d] = j
  <2>1. CASE j = i
    <3>1. n \in 1 .. n \ {i}
      BY <1>4, <1>10, <2>1
    <3>2. PICK d \in Channels \ {c} : Registered(d) /\ idxPoll[d] = n
      BY <1>2, <3>1
    <3> QED
      BY <1>6, <1>7, <2>1, <3>2
  <2>2. CASE j # i
    <3>0. n \in Nat
      BY <1>4
    <3> HIDE DEF n
    <3>1. j \in 1 .. n \ {i} /\ j # n
      BY <1>10, <2>2, <3>0
    <3>2. PICK d \in Channels \ {c} : Registered(d) /\ idxPoll[d] = j
      BY <1>2, <3>1
    <3> QED
      BY <1>6, <1>7, <3>1, <3>2
  <2> QED
    BY <2>1, <2>2
<1>11. IndexConsistent'
  <2>1. \A d \in Channels : Registered(d)' =>
          /\ channels'[fd'[d]] = d
          /\ idxPoll'[d] \in DOMAIN pollFds'
          /\ pollFds'[idxPoll'[d]] =
               [fd |-> IF d = retiring' THEN NoFd ELSE fd'[d], events |-> events'[d]]
    BY <1>5, <1>9 DEF EntryOf
  <2> QED
    BY <1>5, <1>8, <1>10, <2>1 DEF IndexConsistent
<1>12. ~aborted'
  <2> SUFFICES ASSUME NEW j \in 1 .. n - 1 PROVE idxPoll'[channels'[pollFds'[j].fd]] = j
    BY <1>3, <1>5
  <2>1. PICK d \in Channels : Registered(d)' /\ idxPoll'[d] = j
    BY <1>10
  <2>2. pollFds'[j].fd = fd[d] /\ channels'[fd[d]] = d
    BY <1>1, <1>9, <2>1 DEF EntryOf
  <2> QED
    BY <2>1, <2>2
<1>13. LivesOK'
  <2>1. \A d \in Channels : life'[d] = "unborn" => idxPoll'[d] = NoIdx
    BY <1>4, <1>6, <1>7 DEF LivesOK, Registered
  <2>2. \A d \in Channels : ~Registered(d)' => events'[d] = {}
    BY <1>2, <1>3, <1>7, <1>4 DEF LivesOK, RemoveAsserts
  <2>3. \A d \in Channels : Registered(d)' => (events'[d] = {} <=> d = retiring')
    BY <1>1, <1>3, <1>4, <1>7, NoneAssumption DEF LivesOK
  <2> QED
    BY <1>1, <1>4, <1>7, <2>1, <2>2, <2>3 DEF LivesOK
<1>14. MapOK'
  BY <1>1, <1>2, <1>3, <1>4, <1>7 DEF MapOK, EntryOf, TypeOK
<1> QED
  BY <1>11, <1>12, <1>13, <1>14 DEF PollInv, NoAssertFails

LEMMA PollSafe ==
  ASSUME PollInv, retiring = None, NEW ready, ready \subseteq PolledFds
  PROVE  /\ ready \subseteq Fds /\ PollAsserts(ready)
         /\ \A f \in ready : channels[f] \in Channels /\ Registered(channels[f]) /\ fd[channels[f]] = f
<1> SUFFICES ASSUME NEW f \in ready
             PROVE  /\ f \in Fds /\ channels[f] # None /\ fd[channels[f]] = f
                    /\ channels[f] \in Channels /\ Registered(channels[f])
  BY DEF PollAsserts
<1>1. PICK i \in 1 .. Len(pollFds) : pollFds[i].fd = f /\ f # NoFd
  BY EntriesOK DEF PolledFds
<1>2. PICK d \in Channels : Registered(d) /\ idxPoll[d] = i
  BY EntriesOK
<1>3. EntryOf(d)
  BY <1>2, EntriesOK
<1>4. f = fd[d]
  BY <1>1, <1>2, <1>3 DEF EntryOf
<1>5. fd[d] \in Fds
  BY <1>2 DEF Registered, PollInv, LivesOK
<1> QED
  BY <1>2, <1>3, <1>4, <1>5, NoneAssumption DEF EntryOf

LEMMA PollPollInv ==
  ASSUME PollInv, NEW ready, Poll(ready)
  PROVE  PollInv'
<1>1. retiring = None /\ ready \subseteq PolledFds
  BY DEF Poll, Ready
<1>2. /\ ready \subseteq Fds /\ PollAsserts(ready)
      /\ \A f \in ready : channels[f] \in Channels
  BY <1>1, PollSafe
<1>3. /\ active' = ActiveChannels(ready)
      /\ UNCHANGED <<pollFds, channels, events, idxPoll, aborted, fd, life, retiring>>
  BY <1>2 DEF Poll
<1>4. active' \subseteq Channels
  BY <1>2, <1>3 DEF ActiveChannels
<1>5. IndexConsistent'
  BY <1>3, <1>4 DEF PollInv, IndexConsistent, TypeOK, Registered
<1> QED
  BY <1>3, <1>5 DEF PollInv, NoAssertFails, LivesOK, MapOK, Registered

LEMMA SamePollInv == PollInv /\ UNCHANGED vars => PollInv'
  BY DEF PollInv, IndexConsistent, TypeOK, Registered, NoAssertFails, LivesOK, MapOK, vars

LEMMA NextPollInv ==
  ASSUME ~RetireUnused, PollInv, [Next]_vars
  PROVE  PollInv'
<1>1. ASSUME NEW c \in Channels, NEW f \in Fds, Construct(c, f) PROVE PollInv'
  BY <1>1, ConstructPollInv
<1>2. ASSUME NEW c \in Channels, NEW e \in Events, Enable(c, e) PROVE PollInv'
  <2>1. events[c] \in SUBSET Events
    BY DEF PollInv, IndexConsistent, TypeOK
  <2> DEFINE new == events[c] \cup {e}
  <2>2. new \in SUBSET Events /\ new # {}
    BY <2>1
  <2>3. Ready /\ life[c] = "alive" /\ UpdateChannel(c, new) /\ UNCHANGED <<fd, life, retiring>>
    BY <1>2 DEF Enable
  <2> HIDE DEF new
  <2> QED
    BY <2>2, <2>3, EnablePollInv
<1>3. ASSUME NEW c \in Channels, NEW e \in Events, Disable(c, e) PROVE PollInv'
  <2>1. events[c] \in SUBSET Events
    BY DEF PollInv, IndexConsistent, TypeOK
  <2> DEFINE new == events[c] \ {e}
  <2>2. new \in SUBSET Events
    BY <2>1
  <2>3. new # {} /\ Ready /\ life[c] = "alive" /\ UpdateChannel(c, new) /\ UNCHANGED <<fd, life, retiring>>
    BY <1>3 DEF Disable
  <2> HIDE DEF new
  <2> QED
    BY <2>2, <2>3, EnablePollInv
<1>4. ASSUME NEW c \in Channels, DisableEvents(c) PROVE PollInv'
  BY <1>4, DisableEventsPollInv DEF DisableEvents
<1>5. ASSUME NEW c \in Channels, Retire(c) PROVE PollInv'
  BY <1>5, RetirePollInv
<1>6. ASSUME NEW ready \in SUBSET Fds, Poll(ready) PROVE PollInv'
  BY <1>6, PollPollInv
<1> QED
  BY <1>1, <1>2, <1>3, <1>4, <1>5, <1>6, SamePollInv DEF Next

(* The poller by itself: its structures agree, with every index right,     *)
(* whatever the order in which channels come and go and descriptors are    *)
(* reused (poll_poller.cc:37-85).                                          *)
THEOREM IndexCorrect == ASSUME ~RetireUnused PROVE Spec => []IndexConsistent
<1>1. PollInv => IndexConsistent
  BY DEF PollInv
<1> QED
  BY <1>1, InitPollInv, NextPollInv, PTL DEF Spec

(* None of its assertions fails (poll_poller.cc:26-84). *)
THEOREM NoPollerAssertFails == ASSUME ~RetireUnused PROVE Spec => []NoAssertFails
<1>1. PollInv => NoAssertFails
  BY DEF PollInv
<1> QED
  BY <1>1, InitPollInv, NextPollInv, PTL DEF Spec

-----------------------------------------------------------------------------
(* A turn of the loop *)

(* What is left to do once a channel has been removed. *)
AfterRemove(c) ==
  {<<>>, <<<<"socketReset", c>>>>}
    \cup {<<<<"construct", d, f>>, <<"enableReading", d>>>> : d \in Conns, f \in Fds}

ToDisable(c) ==
  /\ \E rest \in AfterRemove(c) : todo = HandleClose(c) \o rest
  /\ retiring = None /\ life[c] = "alive" /\ events[c] # {}
ToRemove(c) ==
  /\ \E rest \in AfterRemove(c) : todo = <<<<"remove", c>>>> \o rest
  /\ retiring = c
Closing(c) == ToDisable(c) \/ ToRemove(c)

Enables == {"enableReading", "enableWriting"}
ToEnable(c) == \E enable \in Enables : todo = <<<<enable, c>>>>

(* The events after which the channel of a connection, or of an attempt,   *)
(* is not expected to be closed already.                                   *)
Trusted(c) == IF c \in Conns THEN "in" ELSE "err"

DispatchTypeOK ==
  /\ phase \in {"events", "functions"}
  /\ walk \in Seq(Channels)
  /\ current \in Channels \cup {None}
  /\ revents \in [Channels -> SUBSET (Events \cup {"err"})]
  /\ resets \subseteq Attempts
  /\ owner \in [Fds -> Channels \cup {None}]

(* What the running code has yet to do is the rest of one of these lists.  *)
TodoOK ==
  \/ todo = <<>> /\ retiring = None
  \/ \E c \in Channels : ToEnable(c) /\ retiring = None
  \/ \E c \in Channels : todo = <<<<"disableWriting", c>>>> /\ retiring = None
  \/ \E c \in Channels : todo = <<<<"socketReset", c>>>> /\ life[c] = "dead" /\ retiring = None
  \/ \E c \in Channels, f \in Fds, enable \in Enables :
       todo = <<<<"construct", c, f>>, <<enable, c>>>> /\ retiring = None
  \/ \E c \in Channels :
       Closing(c) /\ Trusted(c) \notin revents[c] /\ c \notin Range(walk)

(* A living channel owns its descriptor, and waits for something, or is    *)
(* about to.                                                               *)
OwnersOK ==
  \A c \in Channels : life[c] = "alive" =>
    /\ owner[fd[c]] = c
    /\ events[c] = {} => c = retiring \/ ToEnable(c)

(* Events are pending only for channels still to be called; the important  *)
(* ones only for channels that live.                                       *)
ReventsOK ==
  \A c \in Channels :
    /\ revents[c] # {} => c = current \/ c \in Range(walk)
    /\ Trusted(c) \in revents[c] => life[c] = "alive"

PhaseOK == phase = "functions" => walk = <<>> /\ current = None

(* The channels still to be called are different ones, that live.          *)
WalkOK ==
  /\ \A i, j \in DOMAIN walk : walk[i] = walk[j] => i = j
  /\ current \notin Range(walk)
  /\ \A c \in Range(walk) : life[c] = "alive"

GoneOK ==
  /\ gone \subseteq Channels
  /\ \A c \in gone : life[c] = "dead"
  /\ \A a \in resets : life[a] = "dead" \/ Closing(a)

(* An attempt reported as failed is closed before anything else. *)
ReportedOK ==
  /\ reported \subseteq Attempts
  /\ \A a \in reported : "err" \in revents[a] \/ life[a] = "dead" \/ Closing(a)

DispatchInv ==
  /\ DispatchTypeOK /\ TodoOK /\ OwnersOK /\ ReventsOK /\ PhaseOK /\ WalkOK /\ GoneOK
  /\ ReportedOK /\ NoDanglingEvent
-----------------------------------------------------------------------------
(* Lists of calls *)

LEMMA TailOfTwo ==
  ASSUME NEW S, NEW x \in S, NEW y \in S, NEW s \in Seq(S)
  PROVE  /\ <<x, y>> \o s # <<>>
         /\ Head(<<x, y>> \o s) = x /\ Tail(<<x, y>> \o s) = <<y>> \o s
<1> DEFINE t == <<x, y>> \o s
           r == <<y>> \o s
<1>1. t \in Seq(S) /\ Len(t) = Len(s) + 2 /\ Len(s) \in Nat
  OBVIOUS
<1>2. t # <<>> /\ Head(t) = x
  BY <1>1
<1>3. r \in Seq(S) /\ Len(r) = Len(s) + 1 /\ \A i \in 1 .. Len(r) : r[i] = IF i = 1 THEN y ELSE s[i - 1]
  OBVIOUS
<1>4. /\ Tail(t) \in Seq(S) /\ Len(Tail(t)) = Len(s) + 1
      /\ \A i \in 1 .. Len(s) + 1 : Tail(t)[i] = t[i + 1]
  BY <1>1, <1>2
<1>5. \A i \in 1 .. Len(s) + 1 : t[i + 1] = IF i = 1 THEN y ELSE s[i - 1]
  OBVIOUS
<1> HIDE DEF t, r
<1>6. Tail(t) = r
  BY <1>1, <1>3, <1>4, <1>5, SeqEqual
<1> QED
  BY <1>2, <1>6 DEF t, r

LEMMA OneCall ==
  ASSUME NEW x, NEW y
  PROVE  /\ <<x>> # <<>> /\ Head(<<x>>) = x /\ Tail(<<x>>) = <<>>
         /\ <<x, y>> # <<>> /\ Head(<<x, y>>) = x /\ Tail(<<x, y>>) = <<y>>
  OBVIOUS

LEMMA ClosingLists ==
  ASSUME NEW c, NEW rest \in AfterRemove(c)
  PROVE  LET disable == HandleClose(c) \o rest
             remove == <<<<"remove", c>>>> \o rest
         IN /\ disable # <<>> /\ Head(disable) = <<"disableEvents", c>> /\ Tail(disable) = remove
            /\ remove # <<>> /\ Head(remove) = <<"remove", c>> /\ Tail(remove) = rest
<1> DEFINE x == <<"disableEvents", c>>
           y == <<"remove", c>>
           S == {x, y, <<"socketReset", c>>}
                  \cup {<<"construct", d, f>> : d \in Conns, f \in Fds}
                  \cup {<<"enableReading", d>> : d \in Conns}
<1>1. rest \in Seq(S)
  <2>1. <<>> \in Seq(S) /\ <<<<"socketReset", c>>>> \in Seq(S)
    OBVIOUS
  <2>2. ASSUME NEW d \in Conns, NEW f \in Fds
        PROVE  <<<<"construct", d, f>>, <<"enableReading", d>>>> \in Seq(S)
    OBVIOUS
  <2>3. \/ rest = <<>> \/ rest = <<<<"socketReset", c>>>>
        \/ \E d \in Conns, f \in Fds : rest = <<<<"construct", d, f>>, <<"enableReading", d>>>>
    BY DEF AfterRemove
  <2> HIDE DEF S
  <2> QED
    BY <2>1, <2>2, <2>3
<1>2. x \in S /\ y \in S
  OBVIOUS
<1>3. HandleClose(c) = <<x, y>>
  BY DEF HandleClose
<1> HIDE DEF x, y, S
<1>4. /\ <<x, y>> \o rest # <<>> /\ Head(<<x, y>> \o rest) = x
      /\ Tail(<<x, y>> \o rest) = <<y>> \o rest
  BY <1>1, <1>2, TailOfTwo
<1>5. <<y>> \o rest # <<>> /\ Head(<<y>> \o rest) = y /\ Tail(<<y>> \o rest) = rest
  BY <1>1, <1>2
<1> QED
  BY <1>3, <1>4, <1>5 DEF x, y

LEMMA CloseLists ==
  ASSUME NEW c \in Channels
  PROVE  /\ \E rest \in AfterRemove(c) : HandleClose(c) = HandleClose(c) \o rest
         /\ \E rest \in AfterRemove(c) : Close(c) = HandleClose(c) \o rest
<1>1. HandleClose(c) = HandleClose(c) \o <<>>
  BY DEF HandleClose
<1>2. Close(c) = HandleClose(c) \o <<<<"socketReset", c>>>>
  BY DEF Close
<1>3. <<>> \in AfterRemove(c) /\ <<<<"socketReset", c>>>> \in AfterRemove(c)
  BY DEF AfterRemove
<1> QED
  BY <1>1, <1>2, <1>3

(* Between two callbacks or functions nothing is half done. *)
LEMMA NothingToDo ==
  ASSUME DispatchInv, todo = <<>>
  PROVE  /\ retiring = None
         /\ \A c : ~ToEnable(c) /\ ~Closing(c)
         /\ \A c \in Channels : life[c] = "alive" => events[c] # {}
<1>1. \A c : ~ToEnable(c)
  BY DEF ToEnable
<1>2. \A c : ~Closing(c)
  BY ClosingLists DEF Closing, ToDisable, ToRemove
<1>3. retiring = None
  BY <1>1, <1>2 DEF DispatchInv, TodoOK
<1> QED
  BY <1>1, <1>2, <1>3, NoneAssumption DEF DispatchInv, OwnersOK

(* What a call that is next says of the poller. *)
LEMMA NextCall ==
  ASSUME DispatchInv, todo # <<>>
  PROVE  \/ \E c \in Channels, enable \in Enables :
              todo = <<<<enable, c>>>> /\ retiring = None
         \/ \E c \in Channels : todo = <<<<"disableWriting", c>>>> /\ retiring = None
         \/ \E c \in Channels : todo = <<<<"socketReset", c>>>> /\ life[c] = "dead" /\ retiring = None
         \/ \E c \in Channels, f \in Fds, enable \in Enables :
              todo = <<<<"construct", c, f>>, <<enable, c>>>> /\ retiring = None
         \/ \E c \in Channels :
              ToDisable(c) /\ Trusted(c) \notin revents[c] /\ c \notin Range(walk)
         \/ \E c \in Channels :
              ToRemove(c) /\ Trusted(c) \notin revents[c] /\ c \notin Range(walk)
BY DEF DispatchInv, TodoOK, ToEnable, Closing

(* A turn of the loop uses the poller as PollPoller says: disableEvents is *)
(* called on channels that live and wait for something, and remove follows.*)
LEMMA RunCallPolls ==
  ASSUME PollInv, DispatchInv, RunCall
  PROVE  Next \/ UNCHANGED vars
<1>1. todo # <<>> /\ Call(Head(todo)[1], Head(todo)[2])
  BY DEF RunCall
<1>2. ASSUME NEW c \in Channels, NEW enable \in Enables, todo = <<<<enable, c>>>>
      PROVE  Next
  <2>1. Call(enable, c) /\ (enable = "enableReading" \/ enable = "enableWriting")
    BY <1>1, <1>2 DEF Enables
  <2>2. Enable(c, "in") \/ Enable(c, "out")
    BY <2>1 DEF Call
  <2> QED
    BY <2>2 DEF Next, Events
<1>3. ASSUME NEW c \in Channels, todo = <<<<"disableWriting", c>>>>
      PROVE  Next
  <2>1. Call("disableWriting", c)
    BY <1>1, <1>3
  <2>2. Disable(c, "out")
    BY <2>1 DEF Call
  <2> QED
    BY <2>2 DEF Next, Events
<1>4. ASSUME NEW c \in Channels, todo = <<<<"socketReset", c>>>>
      PROVE  UNCHANGED vars
  <2>1. Call("socketReset", c)
    BY <1>1, <1>4
  <2> QED
    BY <2>1 DEF Call
<1>5. ASSUME NEW c \in Channels, NEW f \in Fds, NEW enable \in Enables,
             todo = <<<<"construct", c, f>>, <<enable, c>>>>
      PROVE  Next
  <2>1. Head(todo) = <<"construct", c, f>>
    BY <1>5, OneCall
  <2>2. Call("construct", c) /\ Head(todo)[3] = f
    BY <1>1, <2>1
  <2>3. Construct(c, f)
    BY <2>2 DEF Call
  <2> QED
    BY <2>3 DEF Next
<1>6. ASSUME NEW c \in Channels, ToDisable(c)
      PROVE  Next
  <2>1. Head(todo) = <<"disableEvents", c>>
    BY <1>6, ClosingLists DEF ToDisable
  <2>2. Call("disableEvents", c)
    BY <1>1, <2>1
  <2>3. UpdateChannel(c, {}) /\ retiring' = c /\ UNCHANGED <<fd, life>>
    BY <2>2 DEF Call
  <2>4. ~aborted /\ retiring = None /\ life[c] = "alive" /\ events[c] # {}
    BY <1>6 DEF RunCall, ToDisable
  <2> QED
    BY <2>3, <2>4 DEF Next, DisableEvents, Ready
<1>7. ASSUME NEW c \in Channels, ToRemove(c)
      PROVE  Next
  <2>1. Head(todo) = <<"remove", c>>
    BY <1>7, ClosingLists DEF ToRemove
  <2>2. Call("remove", c)
    BY <1>1, <2>1
  <2>3. Retire(c)
    BY <2>2 DEF Call
  <2> QED
    BY <2>3 DEF Next
<1> QED
  BY <1>1, <1>2, <1>3, <1>4, <1>5, <1>6, <1>7, NextCall

LEMMA StepsPoll ==
  ASSUME PollInv, DispatchInv, [DispatchNext]_allVars
  PROVE  [Next]_vars
<1>1. ASSUME NEW seen \in [PolledFds -> SUBSET Events], PollEvents(seen) PROVE Next
  <2>1. PICK ready : ready \subseteq PolledFds /\ Poll(ready)
    BY <1>1 DEF PollEvents
  <2>2. ready \subseteq Fds
    BY <2>1, PollSafe DEF Poll, Ready
  <2> QED
    BY <2>1, <2>2 DEF Next
<1>2. ASSUME BeginEvent \/ EndEvent \/ EndEvents PROVE UNCHANGED vars
  BY <1>2 DEF BeginEvent, EndEvent, EndEvents
<1>3. ASSUME NEW c \in Conns, HandleError(c) \/ HandleRead(c) \/ HandleWrite(c) PROVE UNCHANGED vars
  BY <1>3 DEF HandleError, HandleRead, HandleWrite
<1>4. ASSUME NEW a \in Attempts, AttemptFails(a) \/ AttemptWrites(a) \/ ResetChannel(a)
      PROVE  UNCHANGED vars
  BY <1>4 DEF AttemptFails, AttemptWrites, ResetChannel
<1>5. ASSUME NEW f \in Fds, NEW c \in Channels, Accept(c, f) \/ Connect(c, f) PROVE UNCHANGED vars
  BY <1>5 DEF Accept, Connect, Starts
<1>6. ASSUME NEW c \in Conns, SendTask(c) \/ CloseTask(c) \/ Release(c) PROVE UNCHANGED vars
  BY <1>6 DEF SendTask, CloseTask, Function, Release
<1>7. ASSUME NEW c \in Channels, Break(c) PROVE UNCHANGED vars
  BY <1>7 DEF Break
<1>8. ASSUME RunCall PROVE Next \/ UNCHANGED vars
  BY <1>8, RunCallPolls
<1>9. ASSUME UNCHANGED allVars PROVE UNCHANGED vars
  BY <1>9 DEF allVars
<1> QED
  BY <1>1, <1>2, <1>3, <1>4, <1>5, <1>6, <1>7, <1>8, <1>9 DEF DispatchNext

-----------------------------------------------------------------------------
(* Callbacks and functions: each handles an event, or none, and leaves a   *)
(* list of calls.                                                          *)
LEMMA CallbackInv ==
  ASSUME PollInv, DispatchInv, todo = <<>>,
         UNCHANGED <<vars, phase, walk, current, reported, gone>>,
         owner' \in [Fds -> Channels \cup {None}],
         \A c \in Channels : life[c] = "alive" => owner'[fd[c]] = owner[fd[c]],
         revents' \in [Channels -> SUBSET (Events \cup {"err"})],
         \A c \in Channels : revents'[c] \subseteq revents[c],
         TodoOK',
         resets' \subseteq Attempts,
         \A a \in resets' \ resets : Closing(a)',
         \A a \in Attempts : "err" \in revents[a] \ revents'[a] => Closing(a)'
  PROVE  DispatchInv'
<1>1. /\ DispatchTypeOK /\ TodoOK /\ OwnersOK /\ ReventsOK /\ PhaseOK /\ WalkOK /\ GoneOK
      /\ ReportedOK /\ NoDanglingEvent
      /\ \A c : ~ToEnable(c) /\ ~Closing(c)
      /\ \A c \in Channels : life[c] = "alive" => events[c] # {}
  BY NothingToDo DEF DispatchInv
<1>2. DispatchTypeOK'
  BY <1>1 DEF DispatchTypeOK
<1>3. OwnersOK'
  BY <1>1 DEF OwnersOK, vars
<1>4. ReventsOK'
  BY <1>1 DEF ReventsOK, vars
<1>5. PhaseOK'
  BY <1>1 DEF PhaseOK
<1>6. GoneOK'
  BY <1>1 DEF GoneOK, vars
<1>7. ReportedOK'
  BY <1>1 DEF ReportedOK, vars
<1>8. NoDanglingEvent' /\ WalkOK'
  BY <1>1 DEF NoDanglingEvent, WalkOK, vars
<1> QED
  BY <1>2, <1>3, <1>4, <1>5, <1>6, <1>7, <1>8 DEF DispatchInv

(* A channel that a callback, or a function, closes lives until then. *)
LEMMA ClosingInv ==
  ASSUME PollInv, DispatchInv, todo = <<>>, UNCHANGED vars,
         NEW c \in Channels, life[c] = "alive",
         NEW rest \in AfterRemove(c), todo' = HandleClose(c) \o rest,
         Trusted(c) \notin revents'[c], c \notin Range(walk'), walk' = walk
  PROVE  TodoOK' /\ Closing(c)'
<1>1. retiring = None /\ events[c] # {}
  BY NothingToDo
<1>2. Closing(c)'
  BY <1>1 DEF Closing, ToDisable, vars
<1> QED
  BY <1>2 DEF TodoOK

LEMMA CallsIs ==
  ASSUME DispatchInv, NEW c \in Channels, NEW e, Calls(c, e)
  PROVE  /\ todo = <<>> /\ e \in revents[c] /\ e = Callback(c)
         /\ revents' = [revents EXCEPT ![c] = revents[c] \ {e}]
         /\ revents' \in [Channels -> SUBSET (Events \cup {"err"})]
         /\ \A d \in Channels : revents'[d] \subseteq revents[d]
         /\ \A d \in Channels : d # c => revents'[d] = revents[d]
         /\ e \notin revents'[c]
         /\ e = Trusted(c) => life[c] = "alive"
         /\ c \in Attempts => Trusted(c) \notin revents'[c]
         /\ c \notin Attempts => \A a \in Attempts : revents'[a] = revents[a]
         /\ owner \in [Fds -> Channels \cup {None}] /\ resets \subseteq Attempts
         /\ c \notin Range(walk)
<1>1. /\ todo = <<>> /\ e \in revents[c] /\ e = Callback(c)
      /\ revents' = [revents EXCEPT ![c] = revents[c] \ {e}]
  BY DEF Calls
<1>2. revents \in [Channels -> SUBSET (Events \cup {"err"})]
  BY DEF DispatchInv, DispatchTypeOK
<1>3. c \in Attempts => Trusted(c) = "err"
  BY KindsAssumption DEF Trusted
<1>4. "err" \in revents[c] => e = "err"
  BY <1>1 DEF Callback
<1>5. \A d \in Channels : d # c => revents'[d] = revents[d]
  BY <1>1, <1>2
<1>6. c \notin Attempts => \A a \in Attempts : revents'[a] = revents[a]
  BY <1>5, KindsAssumption
<1>7. e = Trusted(c) => life[c] = "alive"
  BY <1>1 DEF DispatchInv, ReventsOK
<1>8. owner \in [Fds -> Channels \cup {None}] /\ resets \subseteq Attempts
  BY DEF DispatchInv, DispatchTypeOK
<1>9. c \notin Range(walk)
  BY DEF Calls, DispatchInv, WalkOK
<1> QED
  BY <1>1, <1>2, <1>3, <1>4, <1>5, <1>6, <1>7, <1>8, <1>9

LEMMA HandleErrorInv ==
  ASSUME PollInv, DispatchInv, NEW c \in Conns, HandleError(c)
  PROVE  DispatchInv'
<1>1. c \in Channels /\ c \notin Attempts
  BY KindsAssumption
<1>2. /\ Calls(c, "err")
      /\ UNCHANGED <<vars, phase, walk, current, todo, resets, gone, owner, reported>>
  BY DEF HandleError
<1>3. TodoOK'
  BY <1>1, <1>2, CallsIs, NothingToDo DEF TodoOK, vars
<1> QED
  BY <1>1, <1>2, <1>3, CallsIs, CallbackInv

LEMMA HandleReadInv ==
  ASSUME ~ClosesOthers, PollInv, DispatchInv, NEW c \in Conns, HandleRead(c)
  PROVE  DispatchInv'
<1>1. c \in Channels /\ c \notin Attempts /\ Trusted(c) = "in"
  BY KindsAssumption DEF Trusted
<1>2. /\ Calls(c, "in")
      /\ todo' \in {<<>>, HandleClose(c)} \cup MessageCallback(c)
      /\ UNCHANGED <<vars, phase, walk, current, resets, gone, owner, broken, reported>>
  BY DEF HandleRead
<1>3. /\ life[c] = "alive" /\ "in" \notin revents'[c] /\ retiring = None /\ todo = <<>>
      /\ c \notin Range(walk)
  BY <1>1, <1>2, CallsIs, NothingToDo
<1>4. \/ todo' = <<>>
      \/ \E d \in Conns : todo' = <<<<"enableWriting", d>>>>
      \/ todo' = HandleClose(c) \/ todo' = Close(c)
  BY <1>2 DEF MessageCallback, Open
<1>5. CASE todo' = HandleClose(c) \/ todo' = Close(c)
  <2>1. PICK rest \in AfterRemove(c) : todo' = HandleClose(c) \o rest
    BY <1>1, <1>5, CloseLists
  <2>2. TodoOK'
    BY <1>1, <1>2, <1>3, <2>1, ClosingInv
  <2> QED
    BY <1>1, <1>2, <2>2, CallsIs, CallbackInv DEF DispatchInv, DispatchTypeOK
<1>6. CASE todo' = <<>> \/ \E d \in Conns : todo' = <<<<"enableWriting", d>>>>
  <2>1. TodoOK'
    BY <1>2, <1>3, <1>6, KindsAssumption DEF TodoOK, ToEnable, Enables, vars
  <2> QED
    BY <1>1, <1>2, <2>1, CallsIs, CallbackInv DEF DispatchInv, DispatchTypeOK
<1> QED
  BY <1>4, <1>5, <1>6

LEMMA HandleWriteInv ==
  ASSUME PollInv, DispatchInv, NEW c \in Conns, HandleWrite(c)
  PROVE  DispatchInv'
<1>1. c \in Channels /\ c \notin Attempts
  BY KindsAssumption
<1>2. /\ Calls(c, "out")
      /\ todo' = <<>> \/ todo' = <<<<"disableWriting", c>>>>
      /\ UNCHANGED <<vars, phase, walk, current, resets, gone, owner, broken, reported>>
  BY DEF HandleWrite, Drained
<1>3. TodoOK'
  BY <1>1, <1>2, CallsIs, NothingToDo DEF TodoOK, vars
<1> QED
  BY <1>1, <1>2, <1>3, CallsIs, CallbackInv DEF DispatchInv, DispatchTypeOK

LEMMA AttemptFailsInv ==
  ASSUME PollInv, DispatchInv, NEW a \in Attempts, AttemptFails(a)
  PROVE  DispatchInv'
<1>1. a \in Channels /\ Trusted(a) = "err"
  BY KindsAssumption DEF Trusted
<1>2. /\ Calls(a, "err") /\ todo' = Close(a)
      /\ resets' = resets \cup {a}
      /\ UNCHANGED <<vars, phase, walk, current, owner, reported, gone>>
  BY DEF AttemptFails, QueueReset
<1>3. life[a] = "alive" /\ "err" \notin revents'[a] /\ todo = <<>> /\ a \notin Range(walk)
  BY <1>1, <1>2, CallsIs
<1>4. PICK rest \in AfterRemove(a) : todo' = HandleClose(a) \o rest
  BY <1>1, <1>2, CloseLists
<1>5. TodoOK' /\ Closing(a)'
  BY <1>1, <1>2, <1>3, <1>4, ClosingInv
<1>6. \A b \in Attempts : "err" \in revents[b] \ revents'[b] => Closing(b)'
  BY <1>1, <1>2, <1>5, CallsIs, KindsAssumption
<1>7. \A b \in resets' \ resets : Closing(b)'
  BY <1>2, <1>5
<1> QED
  BY <1>1, <1>2, <1>3, <1>5, <1>6, <1>7, CallsIs, CallbackInv DEF DispatchInv, DispatchTypeOK

LEMMA AttemptWritesInv ==
  ASSUME PollInv, DispatchInv, NEW a \in Attempts, AttemptWrites(a)
  PROVE  DispatchInv'
<1>1. a \in Channels /\ Trusted(a) = "err"
  BY KindsAssumption DEF Trusted
<1>2. /\ Calls(a, "out")
      /\ UNCHANGED <<vars, phase, walk, current, owner, reported>>
      /\ owner \in [Fds -> Channels \cup {None}] /\ resets \subseteq Attempts
  BY DEF AttemptWrites, DispatchInv, DispatchTypeOK
<1>3. "err" \notin revents'[a] /\ todo = <<>> /\ retiring = None /\ a \notin Range(walk)
  BY <1>1, <1>2, CallsIs, NothingToDo
<1>4. \A b \in Attempts : "err" \notin revents[b] \ revents'[b]
  BY <1>1, <1>2, CallsIs, KindsAssumption
<1>5. CASE life[a] = "alive"
  <2>1. PICK d \in Dialled :
          todo' = HandleClose(a) \o <<<<"construct", d, fd[a]>>, <<"enableReading", d>>>>
    BY <1>5 DEF AttemptWrites
  <2>2. resets' = resets \cup {a} /\ gone' = gone
    BY <1>5 DEF AttemptWrites, QueueReset
  <2>3. <<<<"construct", d, fd[a]>>, <<"enableReading", d>>>> \in AfterRemove(a)
    BY <1>1, <1>5 DEF AfterRemove, Conns, PollInv, LivesOK
  <2>4. TodoOK' /\ Closing(a)'
    BY <1>1, <1>2, <1>3, <1>5, <2>1, <2>3, ClosingInv
  <2>5. \A b \in resets' \ resets : Closing(b)'
    BY <2>2, <2>4
  <2> QED
    BY <1>1, <1>2, <1>3, <1>4, <2>2, <2>4, <2>5, CallsIs, CallbackInv
<1>6. CASE life[a] # "alive"
  <2>1. UNCHANGED <<todo, resets, gone>>
    BY <1>6 DEF AttemptWrites
  <2>2. TodoOK'
    BY <1>2, <1>3, <2>1 DEF TodoOK, vars
  <2> QED
    BY <1>1, <1>2, <1>3, <1>4, <2>1, <2>2, CallsIs, CallbackInv
<1> QED
  BY <1>5, <1>6

LEMMA StartsInv ==
  ASSUME PollInv, DispatchInv, NEW c \in Channels, NEW f \in Fds, Accept(c, f) \/ Connect(c, f)
  PROVE  DispatchInv'
<1>1. PICK enable \in Enables : Starts(c, f, enable)
  BY DEF Accept, Connect, Enables
<1>2. /\ todo = <<>> /\ owner[f] = None
      /\ owner' = [owner EXCEPT ![f] = c]
      /\ todo' = <<<<"construct", c, f>>, <<enable, c>>>>
      /\ UNCHANGED <<vars, phase, walk, current, revents, resets, gone, broken, reported>>
  BY <1>1 DEF Starts, Idle
<1>3. TodoOK'
  BY <1>2, NothingToDo DEF TodoOK, vars
<1>4. /\ owner \in [Fds -> Channels \cup {None}] /\ resets \subseteq Attempts
      /\ revents \in [Channels -> SUBSET (Events \cup {"err"})]
      /\ \A d \in Channels : life[d] = "alive" => owner[fd[d]] = d /\ fd[d] \in Fds
  BY DEF DispatchInv, DispatchTypeOK, OwnersOK, PollInv, LivesOK
<1>5. \A d \in Channels : life[d] = "alive" => owner'[fd[d]] = owner[fd[d]]
  BY <1>2, <1>4, NoneAssumption
<1>6. owner' \in [Fds -> Channels \cup {None}]
  BY <1>2, <1>4
<1> QED
  BY <1>2, <1>3, <1>4, <1>5, <1>6, CallbackInv

LEMMA TasksInv ==
  ASSUME PollInv, DispatchInv, NEW c \in Conns, SendTask(c) \/ CloseTask(c)
  PROVE  DispatchInv'
<1>1. /\ todo = <<>> /\ phase = "functions" /\ life[c] = "alive" /\ c \in Channels
      /\ UNCHANGED <<vars, phase, walk, current, revents, resets, gone, owner, broken, reported>>
      /\ todo' = <<<<"enableWriting", c>>>> \/ todo' = Close(c)
  BY KindsAssumption DEF SendTask, CloseTask, Function, InFunctions, Idle, Open
<1>2. /\ owner \in [Fds -> Channels \cup {None}] /\ resets \subseteq Attempts
      /\ revents \in [Channels -> SUBSET (Events \cup {"err"})]
  BY DEF DispatchInv, DispatchTypeOK
<1>3. revents[c] = {} /\ c \notin Range(walk)
  BY <1>1, NoneAssumption DEF DispatchInv, PhaseOK, ReventsOK, Range
<1>4. CASE todo' = <<<<"enableWriting", c>>>>
  <2>1. TodoOK'
    BY <1>1, <1>4, NothingToDo DEF TodoOK, ToEnable, Enables, vars
  <2> QED
    BY <1>1, <1>2, <2>1, CallbackInv
<1>5. CASE todo' = Close(c)
  <2>1. PICK rest \in AfterRemove(c) : todo' = HandleClose(c) \o rest
    BY <1>1, <1>5, CloseLists
  <2>2. TodoOK'
    BY <1>1, <1>3, <2>1, ClosingInv
  <2> QED
    BY <1>1, <1>2, <2>2, CallbackInv
<1> QED
  BY <1>1, <1>4, <1>5
-----------------------------------------------------------------------------
(* The loop *)

LEMMA WalkOn ==
  ASSUME DispatchTypeOK, walk # <<>>
  PROVE  /\ Head(walk) \in Channels /\ Tail(walk) \in Seq(Channels)
         /\ Range(walk) = {Head(walk)} \cup Range(Tail(walk))
<1>1. walk \in Seq(Channels) /\ Len(walk) \in Nat /\ Len(walk) # 0 /\ DOMAIN walk = 1 .. Len(walk)
  BY DEF DispatchTypeOK
<1>2. /\ Head(walk) = walk[1] /\ Tail(walk) \in Seq(Channels)
      /\ DOMAIN Tail(walk) = 1 .. Len(walk) - 1
      /\ \A i \in 1 .. Len(walk) - 1 : Tail(walk)[i] = walk[i + 1]
  BY <1>1
<1>3. \A i \in 2 .. Len(walk) : i - 1 \in 1 .. Len(walk) - 1 /\ walk[i] = Tail(walk)[i - 1]
  BY <1>1, <1>2
<1>4. Range(walk) \subseteq {Head(walk)} \cup Range(Tail(walk))
  <2> SUFFICES ASSUME NEW i \in 1 .. Len(walk) PROVE walk[i] \in {Head(walk)} \cup Range(Tail(walk))
    BY <1>1 DEF Range
  <2>1. i = 1 \/ i \in 2 .. Len(walk)
    BY <1>1
  <2> QED
    BY <1>2, <1>3, <2>1 DEF Range
<1>5. {Head(walk)} \cup Range(Tail(walk)) \subseteq Range(walk)
  <2>1. 1 \in DOMAIN walk /\ \A i \in 1 .. Len(walk) - 1 : i + 1 \in DOMAIN walk
    BY <1>1
  <2> QED
    BY <1>2, <2>1 DEF Range
<1>6. Head(walk) \in Channels
  BY <1>1
<1> QED
  BY <1>2, <1>4, <1>5, <1>6

LEMMA NoneNotInWalk == DispatchTypeOK => None \notin Range(walk)
BY NoneAssumption DEF DispatchTypeOK, Range

LEMMA WalkLeaves ==
  ASSUME DispatchTypeOK, WalkOK, walk # <<>>
  PROVE  /\ \A i, j \in DOMAIN Tail(walk) : Tail(walk)[i] = Tail(walk)[j] => i = j
         /\ Head(walk) \notin Range(Tail(walk))
<1>1. walk \in Seq(Channels) /\ Len(walk) \in Nat /\ Len(walk) # 0 /\ DOMAIN walk = 1 .. Len(walk)
  BY DEF DispatchTypeOK
<1>2. /\ Head(walk) = walk[1]
      /\ DOMAIN Tail(walk) = 1 .. Len(walk) - 1
      /\ \A i \in 1 .. Len(walk) - 1 : Tail(walk)[i] = walk[i + 1]
  BY <1>1
<1>3. 1 \in DOMAIN walk /\ \A i \in 1 .. Len(walk) - 1 : i + 1 \in DOMAIN walk /\ i + 1 # 1
  BY <1>1
<1>4. \A i, j \in 1 .. Len(walk) - 1 : walk[i + 1] = walk[j + 1] => i = j
  BY <1>1, <1>3 DEF WalkOK
<1>5. \A i \in 1 .. Len(walk) - 1 : walk[i + 1] # walk[1]
  BY <1>3 DEF WalkOK
<1> QED
  BY <1>2, <1>4, <1>5 DEF Range

LEMMA LoopInv ==
  ASSUME PollInv, DispatchInv, BeginEvent \/ EndEvent \/ EndEvents
  PROVE  DispatchInv'
<1>1. /\ DispatchTypeOK /\ TodoOK /\ OwnersOK /\ ReventsOK /\ PhaseOK /\ WalkOK /\ GoneOK
      /\ ReportedOK /\ NoDanglingEvent
  BY DEF DispatchInv
<1>2. UNCHANGED <<vars, revents, todo, resets, gone, owner>> /\ todo = <<>> /\ retiring = None
  BY NothingToDo DEF BeginEvent, EndEvent, EndEvents, Idle
<1>3. TodoOK' /\ OwnersOK' /\ GoneOK'
  BY <1>1, <1>2 DEF TodoOK, OwnersOK, GoneOK, vars, Closing, ToDisable, ToRemove, ToEnable
<1>4. reported' \subseteq reported
  BY DEF BeginEvent, EndEvent, EndEvents
<1>5. ReportedOK'
  BY <1>1, <1>2, <1>4 DEF ReportedOK, vars, Closing, ToDisable, ToRemove
<1>6. CASE BeginEvent
  <2>1. /\ walk # <<>> /\ current = None
        /\ current' = Head(walk) /\ walk' = Tail(walk) /\ phase' = phase
    BY <1>6 DEF BeginEvent, Idle
  <2>2. DispatchTypeOK'
    BY <1>1, <1>2, <2>1, WalkOn DEF DispatchTypeOK
  <2>3. ReventsOK' /\ NoDanglingEvent'
    BY <1>1, <1>2, <2>1, WalkOn, NoneAssumption DEF ReventsOK, NoDanglingEvent, vars
  <2>4. PhaseOK'
    BY <1>1, <2>1 DEF PhaseOK
  <2>5. WalkOK'
    BY <1>1, <1>2, <2>1, WalkOn, WalkLeaves DEF WalkOK, vars
  <2> QED
    BY <1>3, <1>5, <2>2, <2>3, <2>4, <2>5 DEF DispatchInv
<1>7. CASE EndEvent
  <2>1. current' = None /\ revents[current] = {} /\ UNCHANGED <<walk, phase>>
    BY <1>7 DEF EndEvent
  <2>2. DispatchTypeOK' /\ ReventsOK' /\ PhaseOK'
    BY <1>1, <1>2, <2>1 DEF DispatchTypeOK, ReventsOK, PhaseOK, vars
  <2>3. None \notin gone
    BY <1>1, NoneAssumption DEF GoneOK
  <2>4. NoDanglingEvent' /\ WalkOK'
    BY <1>1, <1>2, <2>1, <2>3, NoneNotInWalk DEF NoDanglingEvent, WalkOK, vars
  <2> QED
    BY <1>3, <1>5, <2>2, <2>4 DEF DispatchInv
<1>8. CASE EndEvents
  <2>1. current = None /\ walk = <<>> /\ phase' = "functions" /\ UNCHANGED <<walk, current>>
    BY <1>8 DEF EndEvents, Idle
  <2>2. DispatchTypeOK' /\ ReventsOK' /\ PhaseOK' /\ WalkOK' /\ NoDanglingEvent'
    BY <1>1, <1>2, <2>1 DEF DispatchTypeOK, ReventsOK, PhaseOK, WalkOK, NoDanglingEvent, vars
  <2> QED
    BY <1>3, <1>5, <2>2 DEF DispatchInv
<1> QED
  BY <1>6, <1>7, <1>8

LEMMA BreakInv ==
  ASSUME PollInv, DispatchInv, NEW c \in Channels, Break(c)
  PROVE  DispatchInv'
<1>1. UNCHANGED <<vars, phase, walk, current, revents, todo, resets, gone, owner, reported>>
  BY DEF Break
<1>2. DispatchTypeOK' /\ PhaseOK' /\ WalkOK' /\ NoDanglingEvent'
  BY <1>1 DEF DispatchInv, DispatchTypeOK, PhaseOK, WalkOK, NoDanglingEvent, vars
<1>3. TodoOK' /\ OwnersOK' /\ ReventsOK' /\ ReportedOK' /\ GoneOK'
  BY <1>1 DEF DispatchInv, TodoOK, OwnersOK, ReventsOK, ReportedOK, GoneOK, vars,
    Closing, ToDisable, ToRemove, ToEnable
<1> QED
  BY <1>2, <1>3 DEF DispatchInv

(* What is destroyed is dead, and so not in the walk; an attempt's channel *)
(* is destroyed when the walk is over.                                     *)
LEMMA DestroyInv ==
  ASSUME PollInv, DispatchInv, NEW c \in Channels,
         (c \in Attempts /\ ResetChannel(c)) \/ (c \in Conns /\ Release(c))
  PROVE  DispatchInv'
<1>1. /\ DispatchTypeOK /\ TodoOK /\ OwnersOK /\ ReventsOK /\ PhaseOK /\ WalkOK /\ GoneOK
      /\ ReportedOK /\ NoDanglingEvent
  BY DEF DispatchInv
<1>2. /\ UNCHANGED <<vars, phase, walk, current, revents, todo, broken, reported>>
      /\ gone' = gone \cup {c} /\ resets' \subseteq resets
      /\ c \in Attempts => phase = "functions"
  BY KindsAssumption DEF ResetChannel, Release, InFunctions, Idle
<1>3. life[c] = "dead"
  <2>1. CASE ResetChannel(c)
    BY <1>1, <2>1, NothingToDo DEF ResetChannel, InFunctions, Idle, GoneOK
  <2>2. CASE Release(c)
    BY <2>2 DEF Release
  <2> QED
    BY <2>1, <2>2
<1>w. WalkOK'
  BY <1>1, <1>2 DEF WalkOK, vars
<1>4. /\ owner' \in [Fds -> Channels \cup {None}]
      /\ \A d \in Channels : life[d] = "alive" => owner'[fd[d]] = owner[fd[d]]
  <2>1. CASE ResetChannel(c)
    BY <1>1, <2>1 DEF ResetChannel, DispatchTypeOK
  <2>2. CASE Release(c)
    BY <1>1, <1>3, <2>2 DEF Release, Released, DispatchTypeOK, OwnersOK, PollInv, LivesOK
  <2> QED
    BY <2>1, <2>2
<1>5. DispatchTypeOK'
  BY <1>1, <1>2, <1>4 DEF DispatchTypeOK
<1>6. TodoOK' /\ OwnersOK' /\ ReventsOK' /\ PhaseOK' /\ ReportedOK'
  BY <1>1, <1>2, <1>4 DEF TodoOK, OwnersOK, ReventsOK, PhaseOK, ReportedOK, vars,
    Closing, ToDisable, ToRemove, ToEnable
<1>7. GoneOK'
  BY <1>1, <1>2, <1>3 DEF GoneOK, vars, Closing, ToDisable, ToRemove
<1>8. NoDanglingEvent'
  <2>1. c \notin Range(walk)
    BY <1>1, <1>3 DEF WalkOK
  <2>2. c \in Attempts => current # c
    BY <1>1, <1>2, NoneAssumption DEF PhaseOK
  <2> QED
    BY <1>1, <1>2, <2>1, <2>2 DEF NoDanglingEvent
<1> QED
  BY <1>5, <1>6, <1>7, <1>8, <1>w DEF DispatchInv

(* Two entries that poll sees belong to two channels. *)
LEMMA EntriesAreOwn ==
  ASSUME PollInv, NEW i \in DOMAIN pollFds, NEW j \in DOMAIN pollFds,
         pollFds[i].fd \in Fds, pollFds[j].fd \in Fds,
         channels[pollFds[i].fd] = channels[pollFds[j].fd]
  PROVE  i = j
<1>1. PICK c \in Channels : Registered(c) /\ idxPoll[c] = i
  BY EntriesOK
<1>2. PICK d \in Channels : Registered(d) /\ idxPoll[d] = j
  BY EntriesOK
<1>3. pollFds[i].fd = fd[c] /\ channels[fd[c]] = c
  <2>1. EntryOf(c) /\ fd[c] \in Fds
    BY <1>1, EntriesOK DEF PollInv, LivesOK, Registered
  <2> QED
    BY <1>1, <2>1, NoFdAssumption DEF EntryOf
<1>4. pollFds[j].fd = fd[d] /\ channels[fd[d]] = d
  <2>1. EntryOf(d) /\ fd[d] \in Fds
    BY <1>2, EntriesOK DEF PollInv, LivesOK, Registered
  <2> QED
    BY <1>2, <2>1, NoFdAssumption DEF EntryOf
<1> QED
  BY <1>1, <1>2, <1>3, <1>4

(* The walk is over the channels of the entries that are ready. *)
LEMMA WalkIs ==
  ASSUME PollInv, retiring = None, NEW ready, ready \subseteq PolledFds,
         NEW order \in InEntryOrder(ready),
         walk' = [k \in DOMAIN order |-> channels[pollFds[order[k]].fd]]
  PROVE  /\ walk' \in Seq(Channels)
         /\ Range(walk') = {channels[f] : f \in ready}
         /\ \A i, j \in DOMAIN walk' : walk'[i] = walk'[j] => i = j
<1>1. /\ ready \subseteq Fds
      /\ \A f \in ready : channels[f] \in Channels
  BY PollSafe
<1>2. IsFiniteSet(Entries(ready))
  <2>1. Entries(ready) \subseteq 1 .. Len(pollFds) /\ IsFiniteSet(1 .. Len(pollFds))
    BY EntriesOK, FS_Interval DEF Entries
  <2> QED
    BY <2>1, FS_Subset
<1> DEFINE n == Cardinality(Entries(ready))
<1>3. n \in Nat
  BY <1>2, FS_CardinalityType
<1>4. order \in [1 .. n -> Entries(ready)] /\ Range(order) = Entries(ready)
  BY DEF InEntryOrder
<1> HIDE DEF n
<1>5. \A k \in 1 .. n : pollFds[order[k]].fd \in ready
  BY <1>4 DEF Entries
<1>6. \A f \in ready : \E k \in 1 .. n : pollFds[order[k]].fd = f
  <2> SUFFICES ASSUME NEW f \in ready PROVE \E k \in 1 .. n : pollFds[order[k]].fd = f
    OBVIOUS
  <2>1. PICK i \in Entries(ready) : pollFds[i].fd = f
    BY DEF PolledFds, Entries
  <2>2. PICK k \in 1 .. n : order[k] = i
    BY <1>4 DEF Range
  <2> QED
    BY <2>1, <2>2
<1>7. walk' = [k \in 1 .. n |-> channels[pollFds[order[k]].fd]]
  BY <1>4
<1>8. walk' \in [1 .. n -> Channels]
  BY <1>1, <1>5, <1>7
<1>9. walk' \in Seq(Channels)
  BY <1>3, <1>8
<1>10. Range(walk') = {channels[f] : f \in ready}
  BY <1>5, <1>6, <1>7 DEF Range
<1>11. ASSUME NEW i \in 1 .. n, NEW j \in 1 .. n, walk'[i] = walk'[j] PROVE i = j
  <2>1. channels[pollFds[order[i]].fd] = channels[pollFds[order[j]].fd]
    BY <1>7, <1>11
  <2>2. order[i] = order[j]
    <3>1. order[i] \in DOMAIN pollFds /\ order[j] \in DOMAIN pollFds
      BY <1>4 DEF Entries
    <3>2. pollFds[order[i]].fd \in Fds /\ pollFds[order[j]].fd \in Fds
      BY <1>1, <1>5
    <3> QED
      BY <2>1, <3>1, <3>2, EntriesAreOwn
  <2>3. i < j \/ j < i \/ i = j
    BY <1>3
  <2>4. /\ i < j => order[i] < order[j]
        /\ j < i => order[j] < order[i]
    BY <1>4 DEF InEntryOrder
  <2>5. order[i] \in Nat
    BY <1>4, EntriesOK DEF Entries
  <2> QED
    BY <2>2, <2>3, <2>4, <2>5
<1> QED
  BY <1>7, <1>9, <1>10, <1>11

LEMMA PollEventsInv ==
  ASSUME PollInv, DispatchInv, NEW seen \in [PolledFds -> SUBSET Events], PollEvents(seen)
  PROVE  DispatchInv'
<1> DEFINE ready == {f \in PolledFds : Reported(channels[f], seen[f]) # {}}
<1>1. /\ DispatchTypeOK /\ TodoOK /\ OwnersOK /\ GoneOK
  BY DEF DispatchInv
<1>2. /\ todo = <<>> /\ current = None /\ resets = {} /\ phase' = "events"
      /\ Poll(ready)
      /\ revents' = [c \in Channels |->
           IF fd[c] \in ready /\ channels[fd[c]] = c THEN Reported(c, seen[fd[c]]) ELSE {}]
      /\ reported' = {a \in Attempts : "err" \in revents'[a]}
      /\ UNCHANGED <<current, todo, resets, gone, owner, broken>>
      /\ \E order \in InEntryOrder(ready) :
           walk' = [k \in DOMAIN order |-> channels[pollFds[order[k]].fd]]
  BY DEF PollEvents, InFunctions, Idle
<1>3. ready \subseteq PolledFds
  OBVIOUS
<1>4. \A c \in Channels : events[c] \in SUBSET Events
  BY DEF PollInv, IndexConsistent, TypeOK
<1>5. revents' \in [Channels -> SUBSET (Events \cup {"err"})]
  <2> SUFFICES ASSUME NEW c \in Channels, fd[c] \in ready
               PROVE  Reported(c, seen[fd[c]]) \in SUBSET (Events \cup {"err"})
    BY <1>2
  <2> QED
    BY <1>4 DEF Reported
<1>6. \A c \in Channels : revents'[c] # {} => fd[c] \in ready /\ channels[fd[c]] = c
  BY <1>2
<1> HIDE DEF ready
<1>7. /\ retiring = None
      /\ \A f \in ready : channels[f] \in Channels /\ life[channels[f]] = "alive"
      /\ walk' \in Seq(Channels) /\ Range(walk') = {channels[f] : f \in ready}
      /\ \A i, j \in DOMAIN walk' : walk'[i] = walk'[j] => i = j
      /\ UNCHANGED <<events, life, fd, retiring>>
  <2>1. retiring = None
    BY <1>1, <1>2, NothingToDo
  <2>2. PollAsserts(ready) /\ \A f \in ready : channels[f] \in Channels /\ Registered(channels[f])
    BY <1>3, <2>1, PollSafe
  <2>3. /\ walk' \in Seq(Channels) /\ Range(walk') = {channels[f] : f \in ready}
        /\ \A i, j \in DOMAIN walk' : walk'[i] = walk'[j] => i = j
    BY <1>2, <1>3, <2>1, WalkIs
  <2>4. UNCHANGED <<events, life, fd, retiring>>
    BY <1>2, <2>2 DEF Poll
  <2> QED
    BY <2>1, <2>2, <2>3, <2>4 DEF Registered
<1>8. DispatchTypeOK' /\ PhaseOK'
  BY <1>1, <1>2, <1>5, <1>7 DEF DispatchTypeOK, PhaseOK
<1>9. TodoOK' /\ OwnersOK' /\ GoneOK'
  BY <1>1, <1>2, <1>7 DEF TodoOK, OwnersOK, GoneOK, ToEnable
<1>10. ReventsOK'
  BY <1>6, <1>7 DEF ReventsOK
<1>11. ReportedOK'
  BY <1>2 DEF ReportedOK
<1>12. NoDanglingEvent'
  BY <1>1, <1>2, <1>7, NoneAssumption DEF NoDanglingEvent, GoneOK
<1>13. WalkOK'
  BY <1>2, <1>7, NoneAssumption DEF WalkOK
<1> QED
  BY <1>8, <1>9, <1>10, <1>11, <1>12, <1>13 DEF DispatchInv

-----------------------------------------------------------------------------
(* The calls *)

LEMMA FirstCall ==
  /\ \A c : Closing(c) => todo # <<>> /\ Head(todo) \in {<<"disableEvents", c>>, <<"remove", c>>}
  /\ \A c : ToEnable(c) => todo # <<>> /\ \E enable \in Enables : Head(todo) = <<enable, c>>
<1>1. ASSUME NEW c, Closing(c)
      PROVE  todo # <<>> /\ Head(todo) \in {<<"disableEvents", c>>, <<"remove", c>>}
  BY <1>1, ClosingLists DEF Closing, ToDisable, ToRemove
<1>2. ASSUME NEW c, ToEnable(c)
      PROVE  todo # <<>> /\ \E enable \in Enables : Head(todo) = <<enable, c>>
  BY <1>2, OneCall DEF ToEnable
<1> QED
  BY <1>1, <1>2

LEMMA WalkTyped ==
  ASSUME DispatchInv PROVE Range(walk) \subseteq Channels
BY DEF DispatchInv, DispatchTypeOK, Range

LEMMA CallInv ==
  ASSUME PollInv, DispatchInv, RunCall,
         TodoOK', OwnersOK', owner' \in [Fds -> Channels \cup {None}],
         \A c \in Channels : life[c] = "dead" => life'[c] = "dead",
         \A c \in Channels : (Trusted(c) \in revents[c] \/ c \in Range(walk)) /\ life[c] = "alive"
                              => life'[c] = "alive",
         \A c \in Channels : Closing(c) => Closing(c)' \/ life'[c] = "dead"
  PROVE  DispatchInv'
<1>1. UNCHANGED <<phase, walk, current, revents, resets, gone, reported>>
  BY DEF RunCall
<1>2. DispatchTypeOK' /\ PhaseOK' /\ NoDanglingEvent'
  BY <1>1 DEF DispatchInv, DispatchTypeOK, PhaseOK, NoDanglingEvent
<1>w. WalkOK'
  BY <1>1, WalkTyped DEF DispatchInv, WalkOK
<1>3. ReventsOK'
  BY <1>1 DEF DispatchInv, ReventsOK
<1>4. GoneOK' /\ ReportedOK'
  BY <1>1, KindsAssumption DEF DispatchInv, DispatchTypeOK, GoneOK, ReportedOK
<1> QED
  BY <1>2, <1>w, <1>3, <1>4 DEF DispatchInv

LEMMA EnableCallInv ==
  ASSUME PollInv, DispatchInv, RunCall, NEW c \in Channels, NEW enable \in Enables,
         todo = <<<<enable, c>>>>, retiring = None
  PROVE  DispatchInv'
<1>1. Call(enable, c) /\ todo' = <<>> /\ (enable = "enableReading" \/ enable = "enableWriting")
  BY DEF RunCall, Enables
<1>2. PICK e \in Events : Enable(c, e) /\ owner' = owner
  BY <1>1 DEF Call, Events
<1>3. life[c] = "alive" /\ UpdateChannel(c, events[c] \cup {e}) /\ UNCHANGED <<fd, life, retiring>>
  BY <1>2 DEF Enable
<1>4. events' = [events EXCEPT ![c] = events[c] \cup {e}] /\ events \in [Channels -> SUBSET Events]
  BY <1>3, UpdateSafe DEF UpdateChannel, PollInv, IndexConsistent, TypeOK
<1>5. TodoOK'
  BY <1>1, <1>3 DEF TodoOK
<1>6. \A d \in Channels : ~Closing(d) /\ (ToEnable(d) => d = c)
  BY <1>1, OneCall, FirstCall
<1>7. OwnersOK'
  BY <1>2, <1>3, <1>4, <1>6, NoneAssumption DEF DispatchInv, OwnersOK
<1>8. owner' \in [Fds -> Channels \cup {None}]
  BY <1>2 DEF DispatchInv, DispatchTypeOK
<1> QED
  BY <1>3, <1>5, <1>6, <1>7, <1>8, CallInv

LEMMA DisableCallInv ==
  ASSUME PollInv, DispatchInv, RunCall, NEW c \in Channels,
         todo = <<<<"disableWriting", c>>>>, retiring = None
  PROVE  DispatchInv'
<1>1. Call("disableWriting", c) /\ todo' = <<>>
  BY DEF RunCall
<1>2. Disable(c, "out") /\ owner' = owner
  BY <1>1 DEF Call
<1>3. /\ life[c] = "alive" /\ UpdateChannel(c, events[c] \ {"out"}) /\ UNCHANGED <<fd, life, retiring>>
      /\ events[c] \ {"out"} # {}
  BY <1>2 DEF Disable
<1>4. events' = [events EXCEPT ![c] = events[c] \ {"out"}] /\ events \in [Channels -> SUBSET Events]
  BY <1>3, UpdateSafe DEF UpdateChannel, PollInv, IndexConsistent, TypeOK
<1>5. TodoOK'
  BY <1>1, <1>3 DEF TodoOK
<1>6. \A d \in Channels : ~Closing(d) /\ ~ToEnable(d)
  BY OneCall, FirstCall DEF Enables
<1>7. OwnersOK'
  BY <1>2, <1>3, <1>4, <1>6, NoneAssumption DEF DispatchInv, OwnersOK
<1>8. owner' \in [Fds -> Channels \cup {None}]
  BY <1>2 DEF DispatchInv, DispatchTypeOK
<1> QED
  BY <1>3, <1>5, <1>6, <1>7, <1>8, CallInv

LEMMA SocketResetCallInv ==
  ASSUME PollInv, DispatchInv, RunCall, NEW c \in Channels,
         todo = <<<<"socketReset", c>>>>, life[c] = "dead", retiring = None
  PROVE  DispatchInv'
<1>1. Call("socketReset", c) /\ todo' = <<>>
  BY DEF RunCall
<1>2. owner' = Released(fd[c], c) /\ UNCHANGED <<fd, life, retiring, events>>
  BY <1>1 DEF Call, vars
<1>3. TodoOK'
  BY <1>1, <1>2 DEF TodoOK
<1>4. \A d \in Channels : ~Closing(d) /\ ~ToEnable(d)
  BY OneCall, FirstCall DEF Enables
<1>5. owner' \in [Fds -> Channels \cup {None}]
  BY <1>2 DEF DispatchInv, DispatchTypeOK, Released
<1>6. \A d \in Channels : life[d] = "alive" => owner'[fd[d]] = owner[fd[d]]
  BY <1>2 DEF DispatchInv, DispatchTypeOK, Released, OwnersOK, PollInv, LivesOK
<1>7. OwnersOK'
  BY <1>2, <1>4, <1>6 DEF DispatchInv, OwnersOK
<1> QED
  BY <1>2, <1>3, <1>4, <1>5, <1>7, CallInv

LEMMA ConstructCallInv ==
  ASSUME PollInv, DispatchInv, RunCall, NEW c \in Channels, NEW f \in Fds, NEW enable \in Enables,
         todo = <<<<"construct", c, f>>, <<enable, c>>>>, retiring = None
  PROVE  DispatchInv'
<1>1. Head(todo) = <<"construct", c, f>> /\ todo' = <<<<enable, c>>>>
  BY OneCall DEF RunCall
<1>2. Call("construct", c) /\ Head(todo)[3] = f
  BY <1>1 DEF RunCall
<1>3. Construct(c, f) /\ owner' = [owner EXCEPT ![f] = c]
  BY <1>2 DEF Call
<1>4. /\ life[c] = "unborn" /\ \A d \in Channels : life[d] = "alive" => fd[d] # f
      /\ life' = [life EXCEPT ![c] = "alive"] /\ fd' = [fd EXCEPT ![c] = f]
      /\ UNCHANGED <<events, retiring>>
  BY <1>3 DEF Construct
<1>5. /\ life \in [Channels -> {"unborn", "alive", "dead"}] /\ fd \in [Channels -> Fds \cup {NoFd}]
      /\ owner \in [Fds -> Channels \cup {None}]
      /\ \A d \in Channels : life[d] = "alive" => fd[d] \in Fds
  BY DEF PollInv, IndexConsistent, TypeOK, DispatchInv, DispatchTypeOK, LivesOK
<1>6. ToEnable(c)'
  BY <1>1 DEF ToEnable
<1>7. TodoOK'
  BY <1>4, <1>6 DEF TodoOK
<1>8. \A d \in Channels : ~Closing(d) /\ ~ToEnable(d)
  BY <1>1, FirstCall
<1>9. /\ \A d \in Channels \ {c} : life'[d] = life[d] /\ fd'[d] = fd[d]
      /\ life'[c] = "alive" /\ fd'[c] = f
  BY <1>4, <1>5
<1>10. OwnersOK'
  <2>1. \A d \in Channels \ {c} : life[d] = "alive" => owner'[fd[d]] = d /\ events[d] # {}
    BY <1>3, <1>4, <1>5, <1>8, NoneAssumption DEF DispatchInv, OwnersOK
  <2>2. owner'[f] = c
    BY <1>3, <1>5
  <2> QED
    BY <1>4, <1>6, <1>9, <2>1, <2>2 DEF OwnersOK
<1>11. owner' \in [Fds -> Channels \cup {None}]
  BY <1>3, <1>5
<1> QED
  BY <1>4, <1>7, <1>8, <1>9, <1>10, <1>11, CallInv

LEMMA DisableEventsCallInv ==
  ASSUME PollInv, DispatchInv, RunCall, NEW c \in Channels, ToDisable(c),
         Trusted(c) \notin revents[c], c \notin Range(walk)
  PROVE  DispatchInv'
<1>1. PICK rest \in AfterRemove(c) : todo = HandleClose(c) \o rest
  BY DEF ToDisable
<1>2. retiring = None /\ life[c] = "alive" /\ events[c] # {}
  BY DEF ToDisable
<1>3. Head(todo) = <<"disableEvents", c>> /\ todo' = <<<<"remove", c>>>> \o rest
  BY <1>1, ClosingLists DEF RunCall
<1>4. Call("disableEvents", c) /\ revents' = revents /\ walk' = walk
  BY <1>3 DEF RunCall
<1>5. UpdateChannel(c, {}) /\ retiring' = c /\ UNCHANGED <<fd, life, owner>>
  BY <1>4 DEF Call
<1>6. events' = [events EXCEPT ![c] = {}] /\ events \in [Channels -> SUBSET Events]
  BY <1>2, <1>5, UpdateSafe DEF UpdateChannel, PollInv, IndexConsistent, TypeOK
<1>7. ToRemove(c)'
  BY <1>3, <1>5 DEF ToRemove
<1>8. TodoOK'
  BY <1>4, <1>7 DEF TodoOK, Closing
<1>9. \A d \in Channels : (Closing(d) => d = c) /\ ~ToEnable(d)
  BY <1>3, FirstCall DEF Enables
<1>10. OwnersOK'
  BY <1>2, <1>5, <1>6, <1>9, NoneAssumption DEF DispatchInv, OwnersOK
<1>11. owner' \in [Fds -> Channels \cup {None}]
  BY <1>5 DEF DispatchInv, DispatchTypeOK
<1> QED
  BY <1>5, <1>7, <1>8, <1>9, <1>10, <1>11, CallInv DEF Closing

LEMMA RemoveCallInv ==
  ASSUME PollInv, DispatchInv, RunCall, NEW c \in Channels, ToRemove(c),
         Trusted(c) \notin revents[c], c \notin Range(walk)
  PROVE  DispatchInv'
<1>1. PICK rest \in AfterRemove(c) : todo = <<<<"remove", c>>>> \o rest
  BY DEF ToRemove
<1>2. retiring = c
  BY DEF ToRemove
<1>3. Head(todo) = <<"remove", c>> /\ todo' = rest
  BY <1>1, ClosingLists DEF RunCall
<1>4. Call("remove", c)
  BY <1>3 DEF RunCall
<1>5. Retire(c) /\ owner' = owner
  BY <1>4 DEF Call
<1>6. /\ retiring' = None /\ life' = [life EXCEPT ![c] = "dead"] /\ fd' = fd
      /\ RemoveAsserts(c) /\ FindsAll(idxPoll[c])
  BY <1>2, <1>5, RemoveSafe DEF Retire
<1>7. events' = events /\ life \in [Channels -> {"unborn", "alive", "dead"}]
  BY <1>5, <1>6 DEF Retire, RemoveChannel, PollInv, IndexConsistent, TypeOK
<1>8. TodoOK'
  <2>1. \/ rest = <<>> \/ rest = <<<<"socketReset", c>>>>
        \/ \E d \in Conns, f \in Fds : rest = <<<<"construct", d, f>>, <<"enableReading", d>>>>
    BY DEF AfterRemove
  <2>2. CASE rest = <<>>
    BY <1>3, <1>6, <2>2 DEF TodoOK
  <2>3. CASE rest = <<<<"socketReset", c>>>>
    BY <1>3, <1>6, <1>7, <2>3 DEF TodoOK
  <2>4. CASE \E d \in Conns, f \in Fds : rest = <<<<"construct", d, f>>, <<"enableReading", d>>>>
    BY <1>3, <1>6, <2>4, KindsAssumption DEF TodoOK, Enables
  <2> QED
    BY <2>1, <2>2, <2>3, <2>4
<1>9. \A d \in Channels : (Closing(d) => d = c) /\ ~ToEnable(d)
  BY <1>3, FirstCall DEF Enables
<1>10. OwnersOK'
  BY <1>2, <1>5, <1>6, <1>7, <1>9 DEF DispatchInv, OwnersOK
<1>11. owner' \in [Fds -> Channels \cup {None}]
  BY <1>5 DEF DispatchInv, DispatchTypeOK
<1> QED
  BY <1>6, <1>7, <1>8, <1>9, <1>10, <1>11, CallInv

LEMMA RunCallInv ==
  ASSUME PollInv, DispatchInv, RunCall
  PROVE  DispatchInv'
BY NextCall, EnableCallInv, DisableCallInv, SocketResetCallInv, ConstructCallInv,
  DisableEventsCallInv, RemoveCallInv DEF RunCall

-----------------------------------------------------------------------------
AllInv == PollInv /\ DispatchInv

LEMMA InitAllInv == DispatchInit => AllInv
<1> SUFFICES ASSUME DispatchInit PROVE AllInv
  OBVIOUS
<1>1. PollInv
  BY InitPollInv DEF DispatchInit
<1>2. walk \in Seq(Channels) /\ Range(walk) = {}
  BY DEF DispatchInit, Range
<1>3. DispatchTypeOK
  BY <1>2 DEF DispatchInit, DispatchTypeOK
<1>4. TodoOK /\ ReventsOK /\ PhaseOK /\ WalkOK /\ GoneOK /\ ReportedOK /\ NoDanglingEvent
  BY <1>2 DEF DispatchInit, Init, TodoOK, ReventsOK, PhaseOK, WalkOK, GoneOK, ReportedOK,
    NoDanglingEvent
<1>5. OwnersOK
  BY DEF DispatchInit, Init, OwnersOK
<1> QED
  BY <1>1, <1>3, <1>4, <1>5 DEF AllInv, DispatchInv

LEMMA NextAllInv ==
  ASSUME ~RetireUnused, ~ClosesOthers, AllInv, [DispatchNext]_allVars
  PROVE  AllInv'
<1>1. PollInv /\ DispatchInv
  BY DEF AllInv
<1>2. PollInv'
  BY <1>1, StepsPoll, NextPollInv
<1>3. ASSUME NEW seen \in [PolledFds -> SUBSET Events], PollEvents(seen) PROVE DispatchInv'
  BY <1>1, <1>3, PollEventsInv
<1>4. ASSUME BeginEvent \/ EndEvent \/ EndEvents PROVE DispatchInv'
  BY <1>1, <1>4, LoopInv
<1>5. ASSUME NEW c \in Conns, HandleError(c) \/ HandleRead(c) \/ HandleWrite(c) PROVE DispatchInv'
  BY <1>1, <1>5, HandleErrorInv, HandleReadInv, HandleWriteInv
<1>6. ASSUME NEW a \in Attempts, AttemptFails(a) \/ AttemptWrites(a) PROVE DispatchInv'
  BY <1>1, <1>6, AttemptFailsInv, AttemptWritesInv
<1>7. ASSUME NEW f \in Fds, NEW c \in Channels, Accept(c, f) \/ Connect(c, f) PROVE DispatchInv'
  BY <1>1, <1>7, StartsInv
<1>8. ASSUME NEW c \in Conns, SendTask(c) \/ CloseTask(c) PROVE DispatchInv'
  BY <1>1, <1>8, TasksInv
<1>9. ASSUME NEW a \in Attempts, ResetChannel(a) PROVE DispatchInv'
  <2>1. a \in Channels
    BY KindsAssumption
  <2> QED
    BY <1>1, <1>9, <2>1, DestroyInv
<1>10. ASSUME NEW c \in Conns, Release(c) PROVE DispatchInv'
  BY <1>1, <1>10, DestroyInv, KindsAssumption
<1>11. ASSUME NEW c \in Channels, Break(c) PROVE DispatchInv'
  BY <1>1, <1>11, BreakInv
<1>12. ASSUME RunCall PROVE DispatchInv'
  BY <1>1, <1>12, RunCallInv
<1>13. ASSUME UNCHANGED allVars PROVE DispatchInv'
  <2>1. UNCHANGED <<vars, dispatchVars>>
    BY <1>13 DEF allVars
  <2>2. DispatchTypeOK' /\ PhaseOK' /\ WalkOK' /\ NoDanglingEvent'
    BY <1>1, <2>1 DEF dispatchVars, vars, DispatchInv, DispatchTypeOK, PhaseOK, WalkOK,
      NoDanglingEvent
  <2>3. TodoOK' /\ OwnersOK' /\ ReventsOK' /\ ReportedOK' /\ GoneOK'
    BY <1>1, <2>1 DEF dispatchVars, vars, DispatchInv, TodoOK, OwnersOK, ReventsOK, ReportedOK,
      GoneOK, Closing, ToDisable, ToRemove, ToEnable
  <2> QED
    BY <2>2, <2>3 DEF DispatchInv
<1>14. DispatchInv'
  BY <1>3, <1>4, <1>5, <1>6, <1>7, <1>8, <1>9, <1>10, <1>11, <1>12, <1>13 DEF DispatchNext
<1> QED
  BY <1>2, <1>14 DEF AllInv

(* The turn of the loop, with all that its callbacks do to channels,       *)
(* implements the poller's specification: no caller in the library uses    *)
(* the poller otherwise than PollPoller assumes (event_loop.cc:56-71,      *)
(* tcp_connection.cc:73-138, connector.cc:79-146).                         *)
THEOREM DispatchUsesPoller ==
  ASSUME ~RetireUnused, ~ClosesOthers PROVE DispatchSpec => Spec
<1>1. DispatchInit => Init
  BY DEF DispatchInit
<1>2. AllInv /\ [DispatchNext]_allVars => [Next]_vars
  BY StepsPoll DEF AllInv
<1> QED
  BY <1>1, <1>2, InitAllInv, NextAllInv, PTL DEF Spec, DispatchSpec

(* The invariant that the results below rest on.                           *)
THEOREM AllInvariant ==
  ASSUME ~RetireUnused, ~ClosesOthers PROVE DispatchSpec => []AllInv
BY InitAllInv, NextAllInv, PTL DEF DispatchSpec

(* In the composed system too the poller's structures agree                *)
(* (poll_poller.cc:37-85).                                                 *)
THEOREM IndexCorrectInLoop ==
  ASSUME ~RetireUnused, ~ClosesOthers PROVE DispatchSpec => []IndexConsistent
BY DispatchUsesPoller, IndexCorrect, PTL

(* In the composed system too the poller's assertions hold                 *)
(* (poll_poller.cc:26-84).                                                 *)
THEOREM NoAssertFailsInLoop ==
  ASSUME ~RetireUnused, ~ClosesOthers PROVE DispatchSpec => []NoAssertFails
BY DispatchUsesPoller, NoPollerAssertFails, PTL

(* poll returns the channels whose descriptors are ready and that wait for *)
(* something, all of them and no others (poll_poller.cc:15-35).            *)
LEMMA PollIsExact ==
  ASSUME PollInv, NEW ready, Poll(ready)
  PROVE  active' = {c \in Channels : fd[c] \in ready /\ life[c] = "alive" /\ events[c] # {}}
<1>1. retiring = None /\ ready \subseteq PolledFds
  BY DEF Poll, Ready
<1>2. /\ PollAsserts(ready)
      /\ \A f \in ready : channels[f] \in Channels /\ Registered(channels[f]) /\ fd[channels[f]] = f
  BY <1>1, PollSafe
<1>3. active' = {channels[f] : f \in ready}
  BY <1>2 DEF Poll, ActiveChannels
<1>4. ASSUME NEW c \in Channels, Registered(c)
      PROVE  channels[fd[c]] = c /\ life[c] = "alive" /\ events[c] # {}
  BY <1>1, <1>4, EntriesOK, NoneAssumption DEF EntryOf, Registered, PollInv, LivesOK
<1>5. ASSUME NEW c \in Channels, life[c] = "alive", events[c] # {}
      PROVE  Registered(c)
  BY <1>5 DEF PollInv, LivesOK
<1>6. \A f \in ready : /\ channels[f] \in Channels /\ fd[channels[f]] \in ready
                       /\ life[channels[f]] = "alive" /\ events[channels[f]] # {}
  BY <1>2, <1>4
<1>7. \A c \in Channels : fd[c] \in ready /\ life[c] = "alive" /\ events[c] # {} =>
        \E f \in ready : c = channels[f]
  BY <1>4, <1>5
<1> QED
  BY <1>3, <1>6, <1>7

(* The poller returns what its callers wait for, and nothing that was      *)
(* closed (poll_poller.cc:15-35).                                          *)
THEOREM PollCorrect ==
  ASSUME ~RetireUnused PROVE Spec => PollReturnsInterested
<1>1. PollInv /\ [Next]_vars =>
        [\A ready \in SUBSET Fds : Poll(ready) =>
           active' = {c \in Channels : fd[c] \in ready /\ life[c] = "alive" /\ events[c] # {}}]_vars
  BY PollIsExact
<1> QED
  BY <1>1, InitPollInv, NextPollInv, PTL DEF Spec, PollReturnsInterested

(* In the composed system too (poll_poller.cc:15-35).                      *)
THEOREM PollCorrectInLoop ==
  ASSUME ~RetireUnused, ~ClosesOthers PROVE DispatchSpec => PollReturnsInterested
BY DispatchUsesPoller, PollCorrect, PTL

(* No channel is destroyed while the loop is still to call it, nor is an   *)
(* attempt's inside its handleEvent (event_loop.cc:63-65,                  *)
(* channel.cc:43-60, connector.cc:138-146).                                *)
THEOREM NoDanglingCorrect ==
  ASSUME ~RetireUnused, ~ClosesOthers PROVE DispatchSpec => []NoDanglingEvent
<1>1. AllInv => NoDanglingEvent
  BY DEF AllInv, DispatchInv
<1> QED
  BY <1>1, AllInvariant, PTL

(* An attempt that failed is closed, and never becomes a connection        *)
(* (channel.cc:51-59, connector.cc:103-136).                               *)
THEOREM RefusedCorrect ==
  ASSUME ~RetireUnused, ~ClosesOthers PROVE DispatchSpec => RefusedNotConnected
<1>1. ASSUME AllInv, NEW a \in reported, AttemptWrites(a)
      PROVE  UNCHANGED todo
  <2>1. a \in Attempts /\ a \in Channels
    BY <1>1, KindsAssumption DEF AllInv, DispatchInv, ReportedOK
  <2>2. Calls(a, "out")
    BY <1>1 DEF AttemptWrites
  <2>3. "err" \notin revents[a] /\ todo = <<>>
    BY <2>2 DEF Calls, Callback
  <2>4. life[a] = "dead"
    BY <1>1, <2>1, <2>3, NothingToDo DEF AllInv, DispatchInv, ReportedOK
  <2> QED
    BY <1>1, <2>4 DEF AttemptWrites
<1>2. AllInv /\ [DispatchNext]_allVars => [\A a \in reported : AttemptWrites(a) => UNCHANGED todo]_allVars
  BY <1>1
<1> QED
  BY <1>2, AllInvariant, PTL DEF RefusedNotConnected, DispatchSpec

(* A handler reads and writes only the descriptor of its own connection:   *)
(* whatever was closed and reopened since poll (tcp_connection.cc:41-71,   *)
(* 132-138).                                                               *)
THEOREM OwnDescriptorCorrect ==
  ASSUME ~RetireUnused, ~ClosesOthers PROVE DispatchSpec => OwnDescriptorOnly
<1>1. ASSUME AllInv, NEW c \in Conns, HandleRead(c) \/ (HandleWrite(c) /\ IsWriting(c))
      PROVE  owner[fd[c]] = c
  <2>1. c \in Channels
    BY KindsAssumption
  <2>2. CASE HandleRead(c)
    <3>1. Calls(c, "in") /\ Trusted(c) = "in"
      BY <2>2 DEF HandleRead, Trusted
    <3>2. life[c] = "alive"
      BY <1>1, <2>1, <3>1, CallsIs DEF AllInv
    <3> QED
      BY <1>1, <2>1, <3>2 DEF AllInv, DispatchInv, OwnersOK
  <2>3. CASE IsWriting(c)
    BY <1>1, <2>1, <2>3 DEF IsWriting, AllInv, DispatchInv, OwnersOK, PollInv, LivesOK, Registered
  <2> QED
    BY <1>1, <2>2, <2>3
<1>2. AllInv /\ [DispatchNext]_allVars =>
        [\A c \in Conns :
           HandleRead(c) \/ (HandleWrite(c) /\ IsWriting(c)) => owner[fd[c]] = c]_allVars
  BY <1>1
<1> QED
  BY <1>2, AllInvariant, PTL DEF OwnDescriptorOnly, DispatchSpec
=============================================================================
