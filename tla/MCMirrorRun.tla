---------------------------- MODULE MCMirrorRun -----------------------------
(***************************************************************************)
(* Tag t is copied to two destinations by one worker; at the first of them *)
(* tag u is found and deleted.  The event of u's resolution passes three   *)
(* forwarders, the others two.  Every item may hang or end the process.    *)
(***************************************************************************)
EXTENDS MirrorRun

MCInto ==
  [c \in {"resolve1", "resolve", "copy1", "copy", "list1", "list", "delete1",
          "housekeeping"} |->
    CASE c = "resolve1" -> "resolve"
      [] c = "copy1" -> "copy"
      [] c = "list1" -> "list"
      [] c \in {"list", "delete1"} -> "housekeeping"
      [] OTHER -> "evtCh"]

Item(channel, key, status, needs, destination) ==
  [channel |-> channel, key |-> key, status |-> status, needs |-> needs,
   destination |-> destination]

MCItems ==
  [w \in {"t", "copyT1", "copyT2", "u", "deleteU"} |->
    CASE w = "t" -> Item("resolve1", "t", "Resolved", {}, "")
      [] w = "copyT1" -> Item("copy1", "t", "Copied", {"t"}, "d1")
      [] w = "copyT2" -> Item("copy1", "t", "Copied", {"t"}, "d2")
      [] w = "u" -> Item("list1", "u", "Resolved", {}, "d1")
      [] w = "deleteU" -> Item("delete1", "u", "Deleted", {"u"}, "d1")]

MCChannelOf == [w \in DOMAIN MCItems |-> MCItems[w].channel]
MCObjType == [w \in DOMAIN MCItems |-> "Tag"]
MCKey == [w \in DOMAIN MCItems |-> MCItems[w].key]
MCStatusType == [w \in DOMAIN MCItems |-> MCItems[w].status]
MCNeeds == [w \in DOMAIN MCItems |-> MCItems[w].needs]
MCDestinationOf == [w \in DOMAIN MCItems |-> MCItems[w].destination]
MCChannels == DOMAIN MCInto
MCWork == DOMAIN MCItems
=============================================================================
