------------------------------- MODULE Channels -------------------------------
(***************************************************************************)
(* Several storage channels, one of which config.json selects.  "nuage     *)
(* init" may be run again and selects another one, new or existing; the    *)
(* engine started next uses that channel for every row.  Every channel     *)
(* counts its messages from 1.                                             *)
(***************************************************************************)
EXTENDS Engine

CONSTANTS
    ChannelIds,
    MaxSwitches     \* bound: how often init is run again

VARIABLES
    selected,       \* the channel of config.json, whose messages are "messages"
    elsewhere,      \* the contents of the channels that are not selected
    channel_id,     \* the channel_id column of the rows
    switches        \* times init has been run again

channelsVars == <<vars, selected, elsewhere, channel_id, switches>>

NoContent == [messages |-> [m \in {} |-> {}], lastMessage |-> 0]

ChannelsInit ==
    /\ Init
    /\ selected \in ChannelIds
    /\ elsewhere = [c \in ChannelIds \ {selected} |-> NoContent]
    /\ channel_id = [i \in {} |-> {}]
    /\ switches = 0

\* A request; a row it inserts is of the selected channel.
Work ==
    /\ Next
    /\ channel_id' = [i \in DOMAIN files' |->
                         IF i \in DOMAIN files THEN channel_id[i] ELSE selected]
    /\ UNCHANGED <<selected, elsewhere, switches>>

\* init, while neither the server nor a command runs.
SelectChannel(c) ==
    /\ switches < MaxSwitches
    /\ switches' = switches + 1
    /\ AllIdle
    /\ elsewhere' = [d \in ChannelIds \ {c} |->
                        IF d = selected
                        THEN [messages |-> messages, lastMessage |-> lastMessage]
                        ELSE elsewhere[d]]
    /\ selected' = c
    /\ messages' = elsewhere[c].messages
    /\ lastMessage' = elsewhere[c].lastMessage
    /\ UNCHANGED <<indexVars, engineVars, channel_id>>

ChannelsNext == Work \/ \E c \in ChannelIds \ {selected} : SelectChannel(c)

ChannelsSpec == ChannelsInit /\ [][ChannelsNext]_channelsVars

-----------------------------------------------------------------------------
(* Properties *)

MessagesOf(c) == IF c = selected THEN messages ELSE elsewhere[c].messages

\* "message_id + channel_id is the durable reference to a file": a file that
\* nobody asked to delete is in the channel its row names, under the message
\* id its row names, whichever channel is selected now.
DurableReference ==
    \A i \in DOMAIN files \ deleting :
        LET stored == MessagesOf(channel_id[i]) IN
        /\ files[i].message_id \in DOMAIN stored
        /\ stored[files[i].message_id].document = files[i].hash
=============================================================================
