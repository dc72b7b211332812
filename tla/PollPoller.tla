------------------------------ MODULE PollPoller ------------------------------
(***************************************************************************)
(* lotta::PollPoller and the part of lotta::Channel that feeds it: the     *)
(* vector of pollfds handed to ::poll, the map from descriptors to         *)
(* channels, and the index each channel keeps into the vector.             *)
(*                                                                         *)
(* Channels are used as the library uses them: a channel is created for a  *)
(* descriptor nobody else uses, enabled, possibly enabled further or       *)
(* disabled in part, and retired for good: disableEvents() and remove() in *)
(* one go, after which its descriptor is closed and may be reused.         *)
(* An assertion that fails aborts the program: aborted.                    *)
(*                                                                         *)
(* Indices count from 1 here; idxPoll_ = -1 is NoIdx.                      *)
(***************************************************************************)
EXTENDS Naturals, Sequences, SequencesExt

CONSTANTS
  Channels,             \* channel objects
  Fds,                  \* descriptors
  None,                 \* no channel
  NoFd,                 \* pfd.fd = -1
  RetireUnused          \* may a channel be retired that was never enabled?

ASSUME NoneAssumption == None \notin Channels
ASSUME NoFdAssumption == NoFd \notin Fds
ASSUME RetireAssumption == RetireUnused \in BOOLEAN

NoIdx == 0
Events == {"in", "out"}

VARIABLES
  pollFds,              \* pollFds_: <<[fd, events], ...>>
  channels,             \* channels_: the channel of each descriptor, or None
  fd,                   \* fd_ of each channel, NoFd before it is constructed
  events,               \* events_
  idxPoll,              \* idxPoll_
  life,                 \* "unborn", "alive" or "dead"
  retiring,             \* the channel between its disableEvents() and remove()
  active,               \* activeChannels of the last poll
  aborted               \* has an assertion failed?

vars == <<pollFds, channels, fd, events, idxPoll, life, retiring, active, aborted>>

Init ==
  /\ pollFds = <<>>
  /\ channels = [f \in Fds |-> None]
  /\ fd = [c \in Channels |-> NoFd]
  /\ events = [c \in Channels |-> {}]
  /\ idxPoll = [c \in Channels |-> NoIdx]
  /\ life = [c \in Channels |-> "unborn"]
  /\ retiring = None
  /\ active = {}
  /\ aborted = FALSE

Ready == ~aborted /\ retiring = None

Abort ==
  /\ aborted' = TRUE
  /\ UNCHANGED <<pollFds, channels, events, idxPoll, active>>

-----------------------------------------------------------------------------
(* updateChannel(c), after Channel has set events_ to new *)

UpdateAsserts(c) ==
  IF idxPoll[c] = NoIdx
    THEN channels[fd[c]] = None
    ELSE /\ channels[fd[c]] = c
         /\ idxPoll[c] \in 1 .. Len(pollFds)
         /\ pollFds[idxPoll[c]].fd \in {fd[c], NoFd}

AddEntry(c, new) ==
  /\ idxPoll[c] = NoIdx
  /\ pollFds' = Append(pollFds, [fd |-> fd[c], events |-> new])
  /\ idxPoll' = [idxPoll EXCEPT ![c] = Len(pollFds) + 1]
  /\ channels' = [channels EXCEPT ![fd[c]] = c]

ChangeEntryKeepsEvents(c, new) ==  \* mutant: pfd.events is not updated
  /\ idxPoll[c] # NoIdx
  /\ pollFds' = IF new = {} THEN [pollFds EXCEPT ![idxPoll[c]].fd = NoFd] ELSE pollFds
  /\ UNCHANGED <<idxPoll, channels>>

(* An entry without events is taken out of ::poll's sight by its fd, which *)
(* a later update does not restore.                                        *)
ChangeEntry(c, new) ==
  /\ idxPoll[c] # NoIdx
  /\ pollFds' = [pollFds EXCEPT
       ![idxPoll[c]] = [fd |-> IF new = {} THEN NoFd ELSE @.fd, events |-> new]]
  /\ UNCHANGED <<idxPoll, channels>>

UpdateChannel(c, new) ==
  IF UpdateAsserts(c)
    THEN /\ events' = [events EXCEPT ![c] = new]
         /\ AddEntry(c, new) \/ ChangeEntry(c, new)
         /\ UNCHANGED <<active, aborted>>
    ELSE Abort

-----------------------------------------------------------------------------
(* removeChannel(c) *)

RemoveAsserts(c) ==
  /\ channels[fd[c]] = c
  /\ events[c] = {}
  /\ idxPoll[c] \in 1 .. Len(pollFds)
  /\ pollFds[idxPoll[c]] = [fd |-> NoFd, events |-> {}]

(* iter_swap with the last entry, then pop_back. *)
WithoutEntry(i) == Front([pollFds EXCEPT ![i] = Last(pollFds)])

(* The entry that moved is found by its fd, and its channel told; the loop *)
(* that follows checks every entry in the same way.                        *)
Moved(i) == IF i = Len(pollFds) THEN {} ELSE {Last(pollFds).fd}

FindsAll(i) ==
  /\ Moved(i) \subseteq {f \in Fds : channels[f] # None}
  /\ \A e \in 1 .. Len(pollFds) \ {i} :
       pollFds[e].fd \in Fds /\ channels[pollFds[e].fd] # None

ReindexNothing(i) == idxPoll            \* mutant: the moved channel is not told
Reindex(i) == [c \in Channels |-> IF fd[c] \in Moved(i) /\ channels[fd[c]] = c
                                    THEN i ELSE idxPoll[c]]

Erased(c) == [channels EXCEPT ![fd[c]] = None]

RemoveChannel(c) ==
  IF RemoveAsserts(c) /\ FindsAll(idxPoll[c])
    THEN /\ channels' = Erased(c)
         /\ pollFds' = WithoutEntry(idxPoll[c])
         /\ idxPoll' = Reindex(idxPoll[c])
         /\ aborted' = \E i \in DOMAIN pollFds' :
                         idxPoll'[channels'[pollFds'[i].fd]] # i
         /\ UNCHANGED <<events, active>>
    ELSE Abort

-----------------------------------------------------------------------------
(* Channel, as its owners use it *)

(* A channel for a descriptor just opened: no living channel has it.       *)
Construct(c, f) ==
  /\ Ready
  /\ life[c] = "unborn"
  /\ \A d \in Channels : life[d] = "alive" => fd[d] # f
  /\ life' = [life EXCEPT ![c] = "alive"]
  /\ fd' = [fd EXCEPT ![c] = f]
  /\ UNCHANGED <<pollFds, channels, events, idxPoll, retiring, active, aborted>>

(* enableReading, enableWriting *)
Enable(c, e) ==
  /\ Ready
  /\ life[c] = "alive"
  /\ UpdateChannel(c, events[c] \cup {e})
  /\ UNCHANGED <<fd, life, retiring>>

(* disableReading, disableWriting: never the last event the channel waits  *)
(* for.                                                                    *)
Disable(c, e) ==
  /\ Ready
  /\ life[c] = "alive"
  /\ events[c] \ {e} # {}
  /\ UpdateChannel(c, events[c] \ {e})
  /\ UNCHANGED <<fd, life, retiring>>

DisableEvents(c) ==
  /\ Ready
  /\ life[c] = "alive"
  /\ events[c] # {} \/ RetireUnused
  /\ UpdateChannel(c, {})
  /\ retiring' = c
  /\ UNCHANGED <<fd, life>>

(* remove(), then the destructor of the channel's owner. *)
Retire(c) ==
  /\ ~aborted
  /\ retiring = c
  /\ RemoveChannel(c)
  /\ retiring' = None
  /\ life' = [life EXCEPT ![c] = "dead"]
  /\ UNCHANGED fd

PolledFds == {pollFds[i].fd : i \in DOMAIN pollFds} \ {NoFd}

PollAsserts(ready) == \A f \in ready : channels[f] # None /\ fd[channels[f]] = f

ActiveAccumulates(ready) ==        \* mutant: activeChannels_ is never cleared
  active \cup {channels[f] : f \in ready}
ActiveChannels(ready) == {channels[f] : f \in ready}

(* poll(): the kernel reports any of the descriptors it was given. *)
Poll(ready) ==
  /\ Ready
  /\ ready \subseteq PolledFds
  /\ IF PollAsserts(ready)
       THEN /\ active' = ActiveChannels(ready)
            /\ UNCHANGED <<pollFds, channels, events, idxPoll, aborted>>
       ELSE Abort
  /\ UNCHANGED <<fd, life, retiring>>

Next ==
  \/ \E c \in Channels :
       \/ \E f \in Fds : Construct(c, f)
       \/ \E e \in Events : Enable(c, e) \/ Disable(c, e)
       \/ DisableEvents(c)
       \/ Retire(c)
  \/ \E ready \in SUBSET Fds : Poll(ready)

Spec == Init /\ [][Next]_vars

-----------------------------------------------------------------------------
Registered(c) == life[c] = "alive" /\ idxPoll[c] # NoIdx

(* Types; and only a channel that lives can be found in channels_, so that *)
(* the raw pointers there never dangle (poller.h:28).                      *)
TypeOK ==
  /\ pollFds \in Seq([fd : Fds \cup {NoFd}, events : SUBSET Events])
  /\ channels \in [Fds -> Channels \cup {None}]
  /\ fd \in [Channels -> Fds \cup {NoFd}]
  /\ events \in [Channels -> SUBSET Events]
  /\ idxPoll \in [Channels -> Nat]
  /\ life \in [Channels -> {"unborn", "alive", "dead"}]
  /\ retiring \in Channels \cup {None}
  /\ active \subseteq Channels
  /\ aborted \in BOOLEAN
  /\ \A f \in Fds : channels[f] # None => life[channels[f]] = "alive"

(* No assertion of updateChannel, removeChannel or poll fails, whatever    *)
(* the order in which channels come and go and descriptors are reused      *)
(* (poll_poller.cc:26-84).                                                 *)
NoAssertFails == ~aborted

(* The three structures are well formed and agree: a registered channel's  *)
(* index leads to an entry for its descriptor and its events, its          *)
(* descriptor leads back to it, and every entry belongs to a registered    *)
(* channel (poll_poller.cc:37-85).                                         *)
IndexConsistent ==
  /\ TypeOK
  /\ \A c \in Channels : Registered(c) =>
       /\ channels[fd[c]] = c
       /\ idxPoll[c] \in DOMAIN pollFds
       /\ pollFds[idxPoll[c]] =
            [fd |-> IF c = retiring THEN NoFd ELSE fd[c], events |-> events[c]]
  /\ \A i \in DOMAIN pollFds : \E c \in Channels : Registered(c) /\ idxPoll[c] = i

(* poll() returns a channel exactly when its descriptor is reported and    *)
(* the channel waits for an event on it (poll_poller.cc:15-35).            *)
PollReturnsInterested ==
  [][\A ready \in SUBSET Fds : Poll(ready) =>
       active' = {c \in Channels : fd[c] \in ready /\ life[c] = "alive" /\ events[c] # {}}]_vars
=============================================================================
