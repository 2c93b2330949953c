-------------------------------- MODULE Rpc ---------------------------------
(***************************************************************************)
(* Calls between two peers, proto/rpc_impl: the client's table of calls in *)
(* flight, the server's handlers, and the mergers on both sides that put   *)
(* together a request or a response sent in pieces.                        *)
(*                                                                         *)
(* Packets cross a network that loses, duplicates and reorders them.  The  *)
(* content of a message is the list of its pieces: a piece of the h-th     *)
(* response to a call is <<h, idx>>, a piece of its request <<0, idx>>.    *)
(* Only packets that build_rpc_packet makes are received, so the checks of *)
(* feed() for malformed ones never apply.  Transaction ids are unique, so  *)
(* both tables are indexed by the call.                                    *)
(***************************************************************************)
EXTENDS Naturals, Sequences, Bags, SequencesExt

CONSTANTS Call,
          RequestPieces,    \* [Call -> Nat], total_pieces of the request
          ResponsePieces,   \* [Call -> sequence]: total_pieces of the response of the
                            \* first handling, of the second, ...
          MaxDuplicates,    \* bound: packets the network duplicates
          Absent,           \* no entry, no result yet
          Missing,          \* a piece that has not come
          TimedOut

VARIABLES calls,        \* [Call -> where the future of call() is]
          result,       \* [Call -> what call() returns]
          inflight,     \* inflight_requests: [Call -> a merger or Absent]
          channel,      \* [Call -> the merged responses sent to rx]
          receiving,    \* the client's receive loop has not panicked
          net,          \* bag of packets
          mergers,      \* packet_mergers: [Call -> a merger or Absent]
          handlers,     \* [Call -> the handlings that have not responded]
          handled,      \* history: [Call -> number of handlings]
          duplicates

rpcVars == <<calls, result, inflight, channel, receiving, net, mergers, handlers, handled, duplicates>>

-----------------------------------------------------------------------------
(* build_rpc_packet: the packets of a message.  An empty one is one packet *)
(* whose total_pieces is 0.                                                *)
BuildRpcPacket(c, h, total) ==
    {[call |-> c, handling |-> h, idx |-> i, total |-> total] :
        i \in 0 .. (IF total = 0 THEN 0 ELSE total - 1)}

IsRequest(packet) == packet.handling = 0

Piece(packet) == <<packet.handling, packet.idx>>

(* pieces.resize(total_pieces): truncated or extended.                     *)
Resized(pieces, packet) ==
    [i \in 1 .. packet.total |-> IF i \in DOMAIN pieces THEN pieces[i] ELSE Missing]

(* PacketMerger::feed: the pieces after it, and whether all are there.     *)
Whole(packet) == packet.total = 0 /\ packet.idx = 0
Fed(pieces, packet) ==
    IF Whole(packet) THEN pieces
    ELSE [Resized(pieces, packet) EXCEPT ![packet.idx + 1] = Piece(packet)]
Complete(pieces, packet) == Whole(packet) \/ Missing \notin Range(Fed(pieces, packet))
Merged(pieces, packet) == IF Whole(packet) THEN <<Piece(packet)>> ELSE Fed(pieces, packet)

-----------------------------------------------------------------------------
RpcInit ==
    /\ calls = [c \in Call |-> "idle"] /\ result = [c \in Call |-> Absent]
    /\ inflight = [c \in Call |-> Absent] /\ channel = [c \in Call |-> <<>>]
    /\ receiving = TRUE
    /\ net = EmptyBag
    /\ mergers = [c \in Call |-> Absent]
    /\ handlers = [c \in Call |-> {}] /\ handled = [c \in Call |-> 0]
    /\ duplicates = 0

serverVars == <<mergers, handlers, handled>>

(* call() up to the wait.  That the timeout cuts off the sending of pieces *)
(* is the loss of those.                                                   *)
StartCall(c) ==
    /\ calls[c] = "idle"
    /\ calls' = [calls EXCEPT ![c] = "waiting"]
    /\ inflight' = [inflight EXCEPT ![c] = <<>>]
    /\ net' = net (+) SetToBag(BuildRpcPacket(c, 0, RequestPieces[c]))
    /\ UNCHANGED <<result, channel, receiving, duplicates, serverVars>>

(* The wait ends with a response, or with the timeout of the call.         *)
EndWait(c) ==
    /\ calls[c] = "waiting"
    /\ calls' = [calls EXCEPT ![c] = "leaving"]
    /\ \/ /\ channel[c] # <<>>
          /\ result' = [result EXCEPT ![c] = Head(channel[c])]
          /\ channel' = [channel EXCEPT ![c] = Tail(@)]
       \/ /\ result' = [result EXCEPT ![c] = TimedOut]
          /\ UNCHANGED channel
    /\ UNCHANGED <<inflight, receiving, net, duplicates, serverVars>>

(* The locals of call() are dropped in reverse order: the guard of defer!, *)
(* which removes the entry, ...                                            *)
RemoveInflight(c) ==
    /\ calls[c] = "leaving"
    /\ calls' = [calls EXCEPT ![c] = "left"]
    /\ inflight' = [inflight EXCEPT ![c] = Absent]
    /\ UNCHANGED <<result, channel, receiving, net, duplicates, serverVars>>

(* ... and then rx, with what is left in the channel.                      *)
DropRx(c) ==
    /\ calls[c] = "left"
    /\ calls' = [calls EXCEPT ![c] = "done"]
    /\ channel' = [channel EXCEPT ![c] = <<>>]
    /\ UNCHANGED <<result, inflight, receiving, net, duplicates, serverVars>>

(* The client's receive loop.  sender.send(..).unwrap() panics without rx. *)
ReceiveResponse(packet) ==
    LET c == packet.call
        pieces == inflight[c]
    IN  /\ receiving
        /\ ~IsRequest(packet)
        /\ net' = net (-) SetToBag({packet})
        /\ \/ /\ pieces = Absent
              /\ UNCHANGED <<inflight, channel, receiving>>
           \/ /\ pieces # Absent
              /\ inflight' = [inflight EXCEPT ![c] = Fed(pieces, packet)]
              /\ IF ~Complete(pieces, packet) THEN UNCHANGED <<channel, receiving>>
                 ELSE IF calls[c] = "done" THEN receiving' = FALSE /\ UNCHANGED channel
                 ELSE /\ channel' = [channel EXCEPT ![c] = Append(@, Merged(pieces, packet))]
                      /\ UNCHANGED receiving
        /\ UNCHANGED <<calls, result, duplicates, serverVars>>

(* What is left of the merger of a request.                                *)
MergerAfter(pieces, packet) == IF Complete(pieces, packet) THEN Absent ELSE Fed(pieces, packet)

(* The server's receive loop.  A complete request is handled by a task.    *)
ReceiveRequest(packet) ==
    LET c == packet.call
        pieces == IF mergers[c] = Absent THEN <<>> ELSE mergers[c]
    IN  /\ IsRequest(packet)
        /\ net' = net (-) SetToBag({packet})
        /\ mergers' = [mergers EXCEPT ![c] = MergerAfter(pieces, packet)]
        /\ IF Complete(pieces, packet)
           THEN /\ handled' = [handled EXCEPT ![c] = @ + 1]
                /\ handlers' = [handlers EXCEPT ![c] = @ \cup {handled'[c]}]
           ELSE UNCHANGED <<handled, handlers>>
        /\ UNCHANGED <<calls, result, inflight, channel, receiving, duplicates>>

(* handle_rpc: the method's result, its error or its timeout is responded. *)
Respond(c, h) ==
    /\ h \in handlers[c]
    /\ handlers' = [handlers EXCEPT ![c] = @ \ {h}]
    /\ net' = net (+) SetToBag(BuildRpcPacket(c, h, ResponsePieces[c][h]))
    /\ UNCHANGED <<calls, result, inflight, channel, receiving, duplicates, mergers, handled>>

(* Mutant: a request that has been handled is not looked at again.         *)
CleanBegun(c) ==
    /\ mergers[c] # Absent /\ handled[c] = 0
    /\ mergers' = [mergers EXCEPT ![c] = Absent]
    /\ UNCHANGED <<calls, result, inflight, channel, receiving, net, duplicates, handlers, handled>>

(* The task that drops mergers without a new piece for 10 s: whenever.     *)
CleanMerger(c) ==
    /\ mergers[c] # Absent
    /\ mergers' = [mergers EXCEPT ![c] = Absent]
    /\ UNCHANGED <<calls, result, inflight, channel, receiving, net, duplicates, handlers, handled>>

Lose(packet) ==
    /\ net' = net (-) SetToBag({packet})
    /\ UNCHANGED <<calls, result, inflight, channel, receiving, duplicates, serverVars>>

Duplicate(packet) ==
    /\ duplicates < MaxDuplicates
    /\ duplicates' = duplicates + 1
    /\ net' = net (+) SetToBag({packet})
    /\ UNCHANGED <<calls, result, inflight, channel, receiving, serverVars>>

RpcNext ==
    \/ \E c \in Call : \/ StartCall(c) \/ EndWait(c) \/ RemoveInflight(c) \/ DropRx(c)
                       \/ CleanMerger(c)
                       \/ \E h \in handlers[c] : Respond(c, h)
    \/ \E packet \in BagToSet(net) : \/ ReceiveResponse(packet) \/ ReceiveRequest(packet)
                                     \/ Lose(packet) \/ Duplicate(packet)

(* A timeout fires, a future that is done is dropped, and the cleaning     *)
(* task runs; nothing is assumed of the network.                           *)
RpcFairness ==
    \A c \in Call : /\ WF_rpcVars(EndWait(c)) /\ WF_rpcVars(RemoveInflight(c))
                    /\ WF_rpcVars(DropRx(c)) /\ WF_rpcVars(CleanMerger(c))

RpcSpec == RpcInit /\ [][RpcNext]_rpcVars /\ RpcFairness

-----------------------------------------------------------------------------
(* No late, duplicated or reordered response makes the client's receive    *)
(* loop panic on the unwrap of sender.send: whenever an entry is in        *)
(* inflight_requests, its receiver lives.  And a call that returns a       *)
(* response returns all pieces of one, in order, if its request was        *)
(* handled once (the pieces of two responses to a request that the network *)
(* duplicated may mix).                                                    *)
AllPieces(c) == 1 .. (IF ResponsePieces[c][1] = 0 THEN 1 ELSE ResponsePieces[c][1])

ResponseIntact ==
    /\ receiving
    /\ \A c \in Call :
          result[c] \notin {Absent, TimedOut} =>
            /\ handled[c] > 0
            /\ handled[c] = 1 => result[c] = [i \in AllPieces(c) |-> <<1, i - 1>>]

(* Both tables empty in the end: no call and no piece leaves an entry.     *)
TablesEmpty ==
    \A c \in Call : (calls[c] # "idle" => inflight[c] = Absent) /\ mergers[c] = Absent

(* Calls return intact responses, and leave nothing in the tables of the   *)
(* client and the server once all of them have ended.                      *)
CallsSettle == []ResponseIntact /\ <>[]TablesEmpty
=============================================================================
