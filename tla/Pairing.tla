------------------------------- MODULE Pairing -------------------------------
(***************************************************************************)
(* Pairing a Telegram chat (src/channels/telegram-pairing.ts, the          *)
(* interceptor of src/channels/telegram.ts and setup/pair-telegram.ts).    *)
(*                                                                         *)
(* The wizard shows a code, the operator sends it to the bot, the service  *)
(* matches it. The two processes share a file, data/telegram-pairings.json,*)
(* that each reads and writes as a whole: store is its list of records,    *)
(* oldest first. The service's lock is its own, so the wizard may write    *)
(* between its read (peek) and its write.                                  *)
(*                                                                         *)
(* The actions are those of the pairing step; Setup says when it runs.     *)
(* Abstracted: the attempts kept for display, the file's limit of 50       *)
(* records, watching the file (the wait reads it at any time), and other   *)
(* intents than the wizard's.                                              *)
(***************************************************************************)
EXTENDS Naturals, Sequences

CONSTANTS Codes,             \* the codes that may be drawn
          Chats,             \* the chats from which the bot is written to
          NoChat,
          MaxRegenerations   \* pair-telegram.ts: MAX_REGENERATIONS

ASSUME PairingAssumption == /\ NoChat \notin Chats
                            /\ MaxRegenerations \in Nat

VARIABLES store,       \* the records of the file
          shown,       \* the codes the running pairing step waits for: none or one
          regens,      \* how often it issued another one
          peek,        \* what the service read and has not written back: none or one
          rightful,    \* history: the chats that sent the shown code since it is shown
          again,       \* history: the shown code was drawn although the file knew it
          registered,  \* the chats with a messaging group
          owner        \* the first paired user

pairingVars == <<store, shown, regens, peek, rightful, again, registered, owner>>

Record == [code : Codes, status : {"pending", "consumed", "invalidated"}, chat : Chats \cup {NoChat}]

PairingTypeOK ==
  /\ store \in Seq(Record)
  /\ shown \subseteq Codes /\ \A c, d \in shown : c = d
  /\ regens \in 0..MaxRegenerations
  /\ peek \subseteq [store : Seq(Record), text : Codes, chat : Chats]
  /\ \A p, q \in peek : p = q
  /\ again \in BOOLEAN
  /\ rightful \subseteq Chats /\ registered \subseteq Chats
  /\ owner \in Chats \cup {NoChat}

PairingInit ==
  /\ store = <<>> /\ shown = {} /\ regens = 0 /\ peek = {}
  /\ rightful = {} /\ again = FALSE /\ registered = {} /\ owner = NoChat

Invalidated(records) ==
  [i \in DOMAIN records |->
     IF records[i].status = "pending" THEN [records[i] EXCEPT !.status = "invalidated"] ELSE records[i]]

Pending(records) == {i \in DOMAIN records : records[i].status = "pending"}

\* A code is drawn until it is not the code of a pending record; records of the same intent
\* have just been invalidated, so any code is free.
GenerateCode(records) == Codes \ {records[i].code : i \in Pending(records)}

\* The codes of records of any status, those about to be written back included.
Known == {store[i].code : i \in DOMAIN store}
         \cup UNION {{p.store[i].code : i \in DOMAIN p.store} : p \in peek}

CreatePairing(code) ==
  LET rest == Invalidated(store) IN
  /\ code \in GenerateCode(rest)
  /\ store' = Append(rest, [code |-> code, status |-> "pending", chat |-> NoChat])
  /\ shown' = {code}
  /\ rightful' = {}
  /\ again' = (code \in Known)
  /\ UNCHANGED <<peek, registered, owner>>

\* The service receives four digits and reads the file.
Intercept(text, chat) ==
  /\ peek = {}
  /\ peek' = {[store |-> store, text |-> text, chat |-> chat]}
  /\ rightful' = IF text \in shown THEN rightful \cup {chat} ELSE rightful
  /\ UNCHANGED <<store, shown, regens, again, registered, owner>>

\* It writes the file back: the pending record of that code is consumed, or, if there is
\* none, every pending record is invalidated.
MatchUnguarded(p) == Pending(p.store)
Matching(p) == {i \in Pending(p.store) : p.store[i].code = p.text}

TryConsume ==
  \E p \in peek :
    /\ peek' = {}
    /\ IF Matching(p) = {}
       THEN /\ store' = Invalidated(p.store)
            /\ UNCHANGED <<registered, owner>>
       ELSE LET i == CHOOSE j \in Matching(p) : \A l \in Matching(p) : j <= l IN
            /\ store' = [p.store EXCEPT ![i].status = "consumed", ![i].chat = p.chat]
            /\ registered' = registered \cup {p.chat}
            /\ owner' = IF owner = NoChat THEN p.chat ELSE owner
    /\ UNCHANGED <<shown, regens, rightful, again>>

\* What the wait reads of a code: its first record, whatever came after.
Found(code) == {i \in DOMAIN store : store[i].code = code /\ \A j \in 1..(i - 1) : store[j].code # code}

Consumed(code) == {store[i].chat : i \in {j \in Found(code) : store[j].status = "consumed"}}
WrongCode(code) == \E i \in Found(code) : store[i].status = "invalidated"

\* The wait resolves with the chat that consumed the record.
PairedWith(chat) == \E code \in shown : chat \in Consumed(code)

\* A wrong code invalidated it: another code is shown.
Regenerate(code) ==
  /\ \E old \in shown : WrongCode(old)
  /\ regens < MaxRegenerations
  /\ regens' = regens + 1
  /\ CreatePairing(code)

\* Too many wrong codes, or the record is gone.
PairingFails == \E code \in shown : \/ WrongCode(code) /\ regens = MaxRegenerations
                                    \/ Found(code) = {}

\* The step starts and ends.
StartPairing(code) == shown = {} /\ regens' = 0 /\ CreatePairing(code)
EndPairing == shown' = {} /\ rightful' = {} /\ again' = FALSE /\ regens' = 0 /\ UNCHANGED <<store, peek, registered, owner>>
-----------------------------------------------------------------------------
(* The step reports the chat of someone who sent the code that is on the   *)
(* screen (telegram-pairing.ts:2, "proves the operator owns the chat       *)
(* they're registering"), unless the code had been used before: the wait   *)
(* finds the old record first (telegram-pairing.ts:233).                   *)
PairedIsAsker ==
  \A code \in shown, chat \in Chats : chat \in Consumed(code) => chat \in rightful \/ again

(* At most one code is pending, in the file and in what the service read.  *)
Single(records) == \A i, j \in Pending(records) : i = j
OneCode == Single(store) /\ \A p \in peek : Single(p.store)

(* Why: the shown code, drawn for the first time, is in no older record,   *)
(* of the file or of what the service had read; a record of it is consumed *)
(* by someone who sent it while it was shown.                              *)
Vouched(records) ==
  \A code \in shown, i \in DOMAIN records :
    records[i].code = code /\ records[i].status = "consumed" => records[i].chat \in rightful \/ again
RecordsAreVouched ==
  /\ Vouched(store)
  /\ \A p \in peek :
       /\ Vouched(p.store)
       /\ p.text \in shown /\ (\E i \in DOMAIN p.store : p.store[i].code = p.text)
            => p.chat \in rightful \/ again

PairingInv == PairingTypeOK /\ OneCode /\ RecordsAreVouched /\ PairedIsAsker
=============================================================================
