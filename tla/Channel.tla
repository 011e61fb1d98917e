------------------------------ MODULE Channel ------------------------------
(***************************************************************************)
(* A channel (net/channel) and what the epoll instance of its loop knows   *)
(* of it (net/poller/epoll_poller.cc), as one record:                      *)
(*   events  events_, the interest of the channel                          *)
(*   index   idx_, the poller's note on the channel                        *)
(*   on      the descriptor is in the epoll instance, with data.ptr = this *)
(*   mask    the interest epoll has recorded for it                        *)
(*   fatal   an epoll_ctl ADD or MOD has failed, which ends the process    *)
(* Every operation of the code is an operator from record to record.       *)
(***************************************************************************)
Events == {"in", "out"}
Reports == {"in", "out", "hup", "err"}

ChannelType == [events : SUBSET Events, index : {"new", "added", "deleted"},
                on : BOOLEAN, mask : SUBSET Events, fatal : BOOLEAN]

NewChannel ==
  [events |-> {}, index |-> "new", on |-> FALSE, mask |-> {}, fatal |-> FALSE]

is_writing(ch) == "out" \in ch.events

\* events_ & k_none_event_, and k_none_event_ is 0: false for every channel,
\* one without interest included.
is_none_event(ch) == FALSE

\* epoll_poller::update: one epoll_ctl.  ADD fails on a descriptor epoll has,
\* MOD and DEL on one it has not; a failed DEL is only logged.
EpollCtl(ctl, ch) ==
  CASE ctl = "add" -> IF ch.on THEN [ch EXCEPT !.fatal = TRUE]
                      ELSE [ch EXCEPT !.on = TRUE, !.mask = ch.events]
    [] ctl = "mod" -> IF ch.on THEN [ch EXCEPT !.mask = ch.events]
                      ELSE [ch EXCEPT !.fatal = TRUE]
    [] ctl = "del" -> [ch EXCEPT !.on = FALSE, !.mask = {}]

\* A slip: idx_ is not set to k_added.
UpdateChannel_IndexKept(ch) ==
  IF ch.index \in {"new", "deleted"} THEN EpollCtl("add", ch) ELSE EpollCtl("mod", ch)

\* epoll_poller::update_channel.
UpdateChannel(ch) ==
  IF ch.index \in {"new", "deleted"}
  THEN EpollCtl("add", [ch EXCEPT !.index = "added"])
  ELSE IF is_none_event(ch)
       THEN [EpollCtl("del", ch) EXCEPT !.index = "deleted"]
       ELSE EpollCtl("mod", ch)

\* A slip: the channel leaves the poller's books but not the epoll instance.
RemoveChannel_BooksOnly(ch) == [ch EXCEPT !.index = "new"]

\* epoll_poller::remove_channel.
RemoveChannel(ch) ==
  [(IF ch.index = "added" THEN EpollCtl("del", ch) ELSE ch) EXCEPT !.index = "new"]

enable_reading(ch) == UpdateChannel([ch EXCEPT !.events = @ \cup {"in"}])
enable_writing(ch) == UpdateChannel([ch EXCEPT !.events = @ \cup {"out"}])
disable_writing(ch) == UpdateChannel([ch EXCEPT !.events = @ \ {"out"}])
disable_all(ch) == UpdateChannel([ch EXCEPT !.events = {}])
=============================================================================
