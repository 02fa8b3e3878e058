---------------------------- MODULE MCAdmission -----------------------------
(* Two chats new to the host.  A stranger addresses the bot in both; somebody *)
(* the approver knows writes in the first without a mention.                 *)
EXTENDS Admission

CONSTANTS m1, m2, m3, new, other, stranger, known, a1, a2

MCChannelOf == [m \in Messages |-> IF m = m3 THEN other ELSE new]
MCSenderOf == [m \in Messages |-> IF m = m2 THEN known ELSE stranger]
MCPolicy == [c \in Channels |-> "request_approval"]
MCMode == [c \in Channels |-> "mention-sticky"]
=============================================================================
