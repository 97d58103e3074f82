------------------------------- MODULE Channel -------------------------------
(***************************************************************************)
(* The private Telegram channel, as the engine uses it: an external store  *)
(* of messages, each a document with a caption.  Message ids grow and are  *)
(* never given twice; deleting or editing one message does not touch the   *)
(* others; deleting a message that is gone is not an error, editing one    *)
(* is, and editing one to the caption it has may be one.                   *)
(***************************************************************************)
EXTENDS FileIndex

CONSTANT NoMeta     \* a caption that decodeFileMeta does not recognize

VARIABLES
    messages,       \* a function from the ids of the live messages
    lastMessage     \* the highest message id Telegram has assigned

channelVars == <<messages, lastMessage>>

\* The metadata a caption mirrors, and what encodeFileMeta keeps of a record.
FileMeta == [path : Paths, filename : Names, owner : Owners, hash : Hashes]

EncodeFileMeta(rec) ==
    [path |-> rec.path, filename |-> rec.filename, owner |-> rec.owner,
     hash |-> rec.hash]

Message == [document : Hashes, caption : FileMeta \cup {NoMeta}]

ChannelTypeOK ==
    /\ lastMessage \in Nat
    /\ DOMAIN messages \subseteq 1..lastMessage
    /\ messages \in [DOMAIN messages -> Message]

ChannelInit ==
    /\ messages = [m \in {} |-> {}]
    /\ lastMessage = 0

\* sender.To(channel).File: a new message, never a photo or video.
SendFile(document, caption) ==
    /\ lastMessage' = lastMessage + 1
    /\ messages' = [m \in DOMAIN messages \cup {lastMessage + 1} |->
                        IF m = lastMessage + 1
                        THEN [document |-> document, caption |-> caption]
                        ELSE messages[m]]

\* sender.To(channel).Edit(m).Text: overwrites the caption in place.
EditCaption(m, caption) ==
    /\ m \in DOMAIN messages
    /\ messages' = [messages EXCEPT ![m] = [@ EXCEPT !.caption = caption]]
    /\ UNCHANGED lastMessage

\* A message that is gone cannot be edited, and Telegram may refuse the text
\* that a message has already (MESSAGE_NOT_MODIFIED).
EditRejected(m, caption) ==
    /\ m \in DOMAIN messages => messages[m].caption = caption
    /\ UNCHANGED channelVars

\* channels.deleteMessages: idempotent.
DeleteMessages(m) ==
    /\ messages' = Restrict(messages, DOMAIN messages \ {m})
    /\ UNCHANGED lastMessage
=============================================================================
