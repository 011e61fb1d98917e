---------------------------- MODULE ChannelProofs ----------------------------
(***************************************************************************)
(* What the operations on a channel do to the books of the poller and to   *)
(* the epoll instance, for the proofs about connections and acceptors.     *)
(***************************************************************************)
EXTENDS Channel, TLAPS

\* The books agree with epoll: k_added is written exactly on the channels that
\* epoll has, with the interest it has recorded, and no epoll_ctl has failed.
Sound(ch) ==
  /\ ch \in ChannelType
  /\ ch.index \in {"new", "added"}
  /\ ch.on <=> ch.index = "added"
  /\ ch.mask = IF ch.on THEN ch.events ELSE {}
  /\ ~ch.fatal

LEMMA NewSound == Sound(NewChannel) /\ NewChannel.events = {} /\ ~NewChannel.on
  BY DEF Sound, NewChannel, ChannelType

\* Whatever the interest is set to, update_channel puts it into epoll.
LEMMA UpdateSound ==
  ASSUME NEW ch, Sound(ch), NEW ev \in SUBSET Events
  PROVE  LET c == UpdateChannel([ch EXCEPT !.events = ev])
         IN Sound(c) /\ c.on /\ c.events = ev /\ c.mask = ev
<1> DEFINE d == [ch EXCEPT !.events = ev]
           c == UpdateChannel(d)
<1> SUFFICES Sound(c) /\ c.on /\ c.events = ev /\ c.mask = ev
  OBVIOUS
<1>1. /\ d \in ChannelType /\ d.events = ev /\ d.index = ch.index /\ d.on = ch.on
      /\ d.fatal = ch.fatal
  BY DEF Sound, ChannelType
<1> HIDE DEF d
<1>2. CASE ch.index = "new"
  <2>1. ~d.on /\ d.index = "new"
    BY <1>1, <1>2 DEF Sound
  <2>2. c = [[d EXCEPT !.index = "added"] EXCEPT !.on = TRUE, !.mask = ev]
    BY <1>1, <2>1 DEF UpdateChannel, EpollCtl, ChannelType
  <2> HIDE DEF c
  <2>3. /\ c \in ChannelType /\ c.index = "added" /\ c.on = TRUE /\ c.mask = ev
        /\ c.events = ev /\ c.fatal = d.fatal
    BY <1>1, <2>2 DEF ChannelType
  <2> QED BY <1>1, <2>3 DEF Sound
<1>3. CASE ch.index = "added"
  <2>1. d.on /\ d.index = "added"
    BY <1>1, <1>3 DEF Sound
  <2>2. c = [d EXCEPT !.mask = ev]
    BY <1>1, <2>1 DEF UpdateChannel, EpollCtl, ChannelType, is_none_event
  <2> HIDE DEF c
  <2>3. /\ c \in ChannelType /\ c.index = "added" /\ c.on = d.on /\ c.mask = ev
        /\ c.events = ev /\ c.fatal = d.fatal
    BY <1>1, <2>1, <2>2 DEF ChannelType
  <2> QED BY <1>1, <2>1, <2>3 DEF Sound
<1> QED BY <1>2, <1>3 DEF Sound

LEMMA EnableReading ==
  ASSUME NEW ch, Sound(ch)
  PROVE  LET c == enable_reading(ch)
         IN Sound(c) /\ c.on /\ c.events = ch.events \cup {"in"}
<1>1. ch.events \cup {"in"} \in SUBSET Events
  BY DEF Sound, ChannelType, Events
<1> QED BY <1>1, UpdateSound DEF enable_reading

LEMMA EnableWriting ==
  ASSUME NEW ch, Sound(ch)
  PROVE  LET c == enable_writing(ch)
         IN Sound(c) /\ c.on /\ c.events = ch.events \cup {"out"}
<1>1. ch.events \cup {"out"} \in SUBSET Events
  BY DEF Sound, ChannelType, Events
<1> QED BY <1>1, UpdateSound DEF enable_writing

LEMMA DisableWriting ==
  ASSUME NEW ch, Sound(ch)
  PROVE  LET c == disable_writing(ch)
         IN Sound(c) /\ c.on /\ c.events = ch.events \ {"out"}
<1>1. ch.events \ {"out"} \in SUBSET Events
  BY DEF Sound, ChannelType, Events
<1> QED BY <1>1, UpdateSound DEF disable_writing

LEMMA DisableAll ==
  ASSUME NEW ch, Sound(ch)
  PROVE  LET c == disable_all(ch)
         IN Sound(c) /\ c.on /\ c.events = {}
<1>1. {} \in SUBSET Events
  OBVIOUS
<1> QED BY <1>1, UpdateSound DEF disable_all

\* remove_channel leaves nothing in epoll, whether the channel was there or not.
LEMMA Removed ==
  ASSUME NEW ch, Sound(ch)
  PROVE  LET c == RemoveChannel(ch)
         IN Sound(c) /\ ~c.on /\ c.events = ch.events
<1> DEFINE c == RemoveChannel(ch)
<1> SUFFICES Sound(c) /\ ~c.on /\ c.events = ch.events
  OBVIOUS
<1>1. CASE ch.index = "added"
  <2>1. c = [[ch EXCEPT !.on = FALSE, !.mask = {}] EXCEPT !.index = "new"]
    BY <1>1 DEF RemoveChannel, EpollCtl
  <2> HIDE DEF c
  <2>2. /\ c \in ChannelType /\ c.on = FALSE /\ c.mask = {} /\ c.index = "new"
        /\ c.events = ch.events /\ c.fatal = ch.fatal
    BY <2>1 DEF Sound, ChannelType
  <2> QED BY <2>2 DEF Sound
<1>2. CASE ch.index = "new"
  <2>1. c = [ch EXCEPT !.index = "new"]
    BY <1>2 DEF RemoveChannel
  <2> HIDE DEF c
  <2>2. /\ c \in ChannelType /\ c.on = ch.on /\ c.mask = ch.mask /\ c.index = "new"
        /\ c.events = ch.events /\ c.fatal = ch.fatal
    BY <2>1 DEF Sound, ChannelType
  <2> QED BY <1>2, <2>2 DEF Sound
<1> QED BY <1>1, <1>2 DEF Sound
=============================================================================
