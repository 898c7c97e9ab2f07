------------------------------ MODULE ChatHistory ------------------------------
(***************************************************************************)
(* The donor history of one virtual user: the dispatcher of its chat       *)
(* subscription appends what it receives and keeps the last                *)
(* maxChatHistory; onMsg answers a REQ_PUBLIC_CHAT_DATA with a snapshot,   *)
(* sent in chunks, while the dispatcher goes on.  A send that fails ends   *)
(* the reply.                                                              *)
(*                                                                         *)
(* LatestMutant and SendChunkMutant are Latest and SendChunk as a          *)
(* plausible bug would have them; the specification does not use them.     *)
(***************************************************************************)
EXTENDS Integers, Sequences, SequencesExt

CONSTANTS MaxChatHistory,     \* maxChatHistory
          ChatSyncChunkSize,  \* chatSyncChunkSize
          MaxChats,           \* bound: chats received
          MaxRequests         \* bound: donor requests received

ASSUME ChatHistoryAssumption ==
  /\ {MaxChatHistory, ChatSyncChunkSize} \subseteq Nat \ {0}
  /\ {MaxChats, MaxRequests} \subseteq Nat

VARIABLES chats,      \* chats received; the n-th one is n
          chatHist,   \* runner.chatHist
          requests,   \* donor requests received
          replying,   \* donorReply is under way
          history,    \* what it has not sent yet
          chunks,     \* history: the chunks of the last reply sent so far
          asked,      \* history: chatHist when the last reply began
          failed      \* history: the last reply was broken off

replyVars == <<requests, replying, history, chunks, asked, failed>>
histVars == <<chats, chatHist, replyVars>>

HistInit ==
  /\ chats = 0 /\ chatHist = <<>>
  /\ requests = 0 /\ replying = FALSE /\ failed = FALSE
  /\ history = <<>> /\ chunks = <<>> /\ asked = <<>>

LatestMutant(s) ==
  IF Len(s) > MaxChatHistory THEN SubSeq(s, Len(s) - MaxChatHistory, Len(s)) ELSE s
Latest(s) ==
  IF Len(s) > MaxChatHistory
    THEN SubSeq(s, Len(s) - MaxChatHistory + 1, Len(s)) ELSE s

\* appendChat, from onChatSub.
AppendChat ==
  /\ chats < MaxChats
  /\ chats' = chats + 1
  /\ chatHist' = Latest(Append(chatHist, chats + 1))
  /\ UNCHANGED replyVars

\* onPrivateDelivery of REQ_PUBLIC_CHAT_DATA; the next message waits for it.
DonorRequest ==
  /\ ~replying /\ requests < MaxRequests
  /\ requests' = requests + 1
  /\ replying' = TRUE /\ failed' = FALSE
  /\ history' = chatHist /\ asked' = chatHist /\ chunks' = <<>>
  /\ UNCHANGED <<chats, chatHist>>

ChunkLen(s) == IF Len(s) < ChatSyncChunkSize THEN Len(s) ELSE ChatSyncChunkSize

\* One turn of donorReply's loop.
SendChunkMutant ==
  /\ replying /\ history # <<>>
  /\ chunks' = Append(chunks, SubSeq(history, 1, ChunkLen(history)))
  /\ history' = SubSeq(chatHist, ChunkLen(history) + 1, Len(chatHist))
  /\ UNCHANGED <<replying, failed, chats, chatHist, requests, asked>>
SendChunk ==
  /\ replying /\ history # <<>>
  /\ \/ /\ chunks' = Append(chunks, SubSeq(history, 1, ChunkLen(history)))
        /\ history' = SubSeq(history, ChunkLen(history) + 1, Len(history))
        /\ UNCHANGED <<replying, failed>>
     \/ /\ replying' = FALSE /\ failed' = TRUE
        /\ UNCHANGED <<chunks, history>>
  /\ UNCHANGED <<chats, chatHist, requests, asked>>

ReplySent ==
  /\ replying /\ history = <<>>
  /\ replying' = FALSE
  /\ UNCHANGED <<chats, chatHist, requests, history, chunks, asked, failed>>

HistNext == AppendChat \/ DonorRequest \/ SendChunk \/ ReplySent

-------------------------------------------------------------------------------
HistTypeOK ==
  /\ chats \in 0..MaxChats /\ requests \in 0..MaxRequests
  /\ chatHist \in Seq(1..MaxChats) /\ history \in Seq(1..MaxChats)
  /\ Len(chatHist) <= MaxChatHistory /\ Len(history) <= MaxChatHistory

(***************************************************************************)
(* The history is always the latest chats, in order and without a gap, as  *)
(* many as there were up to the bound (chat.go:121-129).                   *)
(***************************************************************************)
HistoryIsLatest ==
  chatHist = SubSeq([i \in 1..chats |-> i],
                    IF chats > MaxChatHistory THEN chats - MaxChatHistory + 1 ELSE 1,
                    chats)

(***************************************************************************)
(* A reply is the history as it was when the request arrived, whatever     *)
(* chats come in between its chunks: the chunks sent and the rest still to *)
(* send make it up in order, no chunk is empty or too long, and a reply    *)
(* that was not broken off ends with nothing left (chat.go:86-118,         *)
(* 131-138).                                                               *)
(***************************************************************************)
ReplyIsSnapshot ==
  /\ FlattenSeq(chunks) \o history = asked
  /\ \A i \in DOMAIN chunks : Len(chunks[i]) \in 1..ChatSyncChunkSize
  /\ ~replying /\ ~failed => history = <<>>
===============================================================================
