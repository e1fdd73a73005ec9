------------------------------- MODULE Camera -------------------------------
(***************************************************************************)
(* camera_task, the frame interrupt of the camera port (jpeg_data_process) *)
(* and the transfer interrupt of its DMA stream (jpeg_dcmi_rx_callback),   *)
(* which share jpeg_data_ok, jpeg_data_len and jpeg_data_buf; and the      *)
(* commands of tcp_handle_task through camera_event and camera_start.      *)
(*                                                                         *)
(* The port captures from the start of a frame and stops at the end of     *)
(* one.  The stream fills two buffers in turn; the transfer interrupt,     *)
(* above the frame interrupt, comes with the last word of each.  Both come *)
(* at any step of the tasks.                                               *)
(*                                                                         *)
(* A picture is sent in pieces of 1000 bytes, thirty fewer than there are  *)
(* whole ones in it; the loop counts in unsigned numbers.                  *)
(***************************************************************************)
EXTENDS Integers, Sequences, SequencesExt, FiniteSetsExt

CONSTANTS
    CAMERASIZE,   \* size of camera_event (message_queue.h)
    DMASIZE,      \* words in a buffer of the stream, jpeg_dma_bufsize
    MaxFrame,     \* words in the longest frame
    DATASIZE,     \* words in jpeg_data_buf
    PIECE,        \* words in a piece, 250
    HELD,         \* the pieces not sent, 30
    RANGE         \* 2^32, the range of an unsigned int

ASSUME CameraAssumption ==
    {CAMERASIZE, DMASIZE, MaxFrame, DATASIZE, PIECE, HELD, RANGE} \subseteq Nat \ {0}
ASSUME RangeAssumption == HELD < RANGE /\ MaxFrame < RANGE

\* What jpeg_data_buf has to hold for the longest frame.
ASSUME DataSizeAssumption == DATASIZE >= 2 * MaxFrame + DMASIZE - 1

(* A word: its place in its frame, and how many frames the stream has      *)
(* taken since, as far as two.                                             *)
Word(n) == [n |-> n, age |-> 0]
Old == [n |-> 0, age |-> 2]
Aged(words) ==
    [i \in DOMAIN words |-> [words[i] EXCEPT !.age = Min({@ + 1, 2})]]

VARIABLES
    camera_event, camera_start,   \* the queue; is there to be a video
    pc, isServer,                 \* camera_task
    jpeg_data_ok,
    data,           \* jpeg_data_buf, as far as jpeg_data_len
    enabled,        \* the stream: is it on
    target,         \* the buffer it fills, jpeg_buf0 or jpeg_buf1
    count, pos,     \* words it has to move, and where the next goes
    buffer,         \* the two buffers
    capture,        \* the port: "off", "on", or "stopping" with the frame
    w,              \* words of the frame so far
    size,           \* history: words of the last frame the stream took
    piece,          \* pieces sent of the picture that is being sent
    out             \* history: their words

queueVars == <<camera_event, camera_start>>
streamVars == <<enabled, target, count, pos, buffer>>
portVars == <<capture, w, size>>
sendVars == <<piece, out>>
cameraVars ==
    <<queueVars, pc, isServer, jpeg_data_ok, data, streamVars, portVars, sendVars>>

CameraInit ==
    /\ camera_event = <<>> /\ camera_start = "STOP"
    /\ pc = "idle" /\ isServer = TRUE
    /\ jpeg_data_ok = 0 /\ data = <<>>
    /\ enabled = FALSE /\ target = 0 /\ count = DMASIZE /\ pos = 1
    /\ buffer = [b \in {0, 1} |-> [i \in 1 .. DMASIZE |-> Old]]
    /\ capture = "off" /\ w = 0 /\ size = 0
    /\ piece = 0 /\ out = <<>>

-----------------------------------------------------------------------------
(* tcp_handle_task: the user's command starts or stops at once and posts   *)
(* two buffers, the server's posts three and starts nothing.  START, STOP  *)
(* and the camera's name are texts camera_task does not look at.           *)

Post(parts) ==
    LET room == CAMERASIZE - Len(camera_event)
    IN camera_event' = camera_event \o SubSeq(parts, 1, Min({room, Len(parts)}))

UserCommand(res) ==
    /\ camera_start' = res /\ Post(<<"server", "text">>)
    /\ UNCHANGED <<pc, isServer, jpeg_data_ok, data, streamVars, portVars, sendVars>>

ServerCommand ==
    /\ Post(<<"client", "text", "text">>)
    /\ UNCHANGED <<camera_start, pc, isServer, jpeg_data_ok, data, streamVars, portVars,
                   sendVars>>

-----------------------------------------------------------------------------
(* The port and the stream.                                                *)

\* The stream moves a word; with the last of a buffer comes its interrupt,
\* which copies the whole buffer behind what is in jpeg_data_buf.
Move ==
    LET aged == w = 0
        last == IF aged THEN [b \in {0, 1} |-> Aged(buffer[b])] ELSE buffer
        kept == IF aged THEN Aged(data) ELSE data
        filled == [last EXCEPT ![target][pos] = Word(w + 1)]
    IN /\ buffer' = filled
       /\ IF count = 1
            THEN /\ target' = 1 - target /\ count' = DMASIZE /\ pos' = 1
                 /\ data' = kept \o filled[target]
            ELSE /\ count' = count - 1 /\ pos' = pos + 1 /\ data' = kept
                 /\ UNCHANGED target
       /\ UNCHANGED enabled

PortWord ==
    /\ capture = "on" \/ (capture = "stopping" /\ w > 0)
    /\ w < MaxFrame /\ w' = w + 1
    /\ IF enabled THEN Move ELSE UNCHANGED <<streamVars, data>>
    /\ UNCHANGED <<queueVars, pc, isServer, jpeg_data_ok, capture, size, sendVars>>

\* jpeg_data_process while the frame is being collected: the rest of it.
Collect ==
    /\ jpeg_data_ok = 0 /\ jpeg_data_ok' = 1
    /\ enabled' = FALSE
    /\ data' = data \o SubSeq(buffer[target], 1, DMASIZE - count)
    /\ UNCHANGED <<target, count, pos, buffer>>

\* Once it has been seen to: the stream is started for the next.  While it
\* is on, its registers cannot be written.
Restart_StaysSeenTo ==   \* A slip: jpeg_data_ok is not set back.
    /\ jpeg_data_ok = 2 /\ UNCHANGED jpeg_data_ok
    /\ data' = <<>>
    /\ enabled' = TRUE
    /\ IF enabled THEN UNCHANGED <<count, pos>> ELSE count' = DMASIZE /\ pos' = 1
    /\ UNCHANGED <<target, buffer>>
Restart_KeepsData ==   \* A slip: jpeg_data_len is not set back.
    /\ jpeg_data_ok = 2 /\ jpeg_data_ok' = 0
    /\ UNCHANGED data
    /\ enabled' = TRUE
    /\ IF enabled THEN UNCHANGED <<count, pos>> ELSE count' = DMASIZE /\ pos' = 1
    /\ UNCHANGED <<target, buffer>>
Restart ==
    /\ jpeg_data_ok = 2 /\ jpeg_data_ok' = 0
    /\ data' = <<>>
    /\ enabled' = TRUE
    /\ IF enabled THEN UNCHANGED <<count, pos>> ELSE count' = DMASIZE /\ pos' = 1
    /\ UNCHANGED <<target, buffer>>

\* Bound: camera_task gets from DCMI_Start to its first look at jpeg_data_ok
\* before a frame has passed.
Prompt == pc = "wait1" => jpeg_data_ok # 1

FrameEnd ==
    /\ w > 0 /\ Prompt
    /\ \/ Collect
       \/ Restart
       \/ jpeg_data_ok = 1 /\ UNCHANGED <<jpeg_data_ok, data, streamVars>>
    /\ w' = 0 /\ size' = IF enabled THEN w ELSE size
    /\ capture' = IF capture = "stopping" THEN "off" ELSE capture
    /\ UNCHANGED <<queueVars, pc, isServer, sendVars>>

\* Between two frames the port stops at once.
PortStops ==
    /\ capture = "stopping" /\ w = 0
    /\ capture' = "off"
    /\ UNCHANGED <<queueVars, pc, isServer, jpeg_data_ok, data, streamVars, w, size, sendVars>>

-----------------------------------------------------------------------------
(* camera_task.                                                            *)

LookAtStart ==
    /\ pc = "idle" /\ camera_start = "START"
    /\ pc' = "auth"
    /\ UNCHANGED <<queueVars, isServer, jpeg_data_ok, data, streamVars, portVars, sendVars>>

TakeAuth ==
    /\ pc = "auth" /\ camera_event # <<>>
    /\ camera_event' = Tail(camera_event)
    /\ IF Head(camera_event) \in {"server", "client"}
         THEN isServer' = (Head(camera_event) = "server") /\ pc' = "camera"
         ELSE pc' = "idle" /\ UNCHANGED isServer
    /\ UNCHANGED <<camera_start, jpeg_data_ok, data, streamVars, portVars, sendVars>>

\* What it takes for the camera's name is not looked at.
TakeCamera ==
    /\ pc = "camera"
    /\ IF camera_event = <<>>   \* nothing comes in 500 ticks
         THEN pc' = "idle" /\ UNCHANGED camera_event
         ELSE pc' = "video" /\ camera_event' = Tail(camera_event)
    /\ UNCHANGED <<camera_start, isServer, jpeg_data_ok, data, streamVars, portVars, sendVars>>

VideoEnds ==
    /\ pc = "video" /\ camera_start = "STOP"
    /\ pc' = "idle"
    /\ UNCHANGED <<queueVars, isServer, jpeg_data_ok, data, streamVars, portVars, sendVars>>

StartNotSent ==
    /\ pc = "video" /\ camera_start = "START"
    /\ camera_start' = "STOP"
    /\ UNCHANGED <<camera_event, pc, isServer, jpeg_data_ok, data, streamVars, portVars,
                   sendVars>>

\* The start of a picture is sent; DCMI_Start switches stream and port on.
StartSent ==
    /\ pc = "video" /\ camera_start = "START"
    /\ enabled' = TRUE /\ pos' = 1 /\ capture' = "on" /\ pc' = "wait1"
    /\ UNCHANGED <<queueVars, isServer, jpeg_data_ok, data, target, count, buffer, w, size,
                   sendVars>>

\* A slip: only one frame is let go by.
NextWait_One == "wait3"
NextWait == IF pc = "wait1" THEN "wait2" ELSE "wait3"

LetGo ==
    /\ pc \in {"wait1", "wait2"} /\ jpeg_data_ok = 1
    /\ jpeg_data_ok' = 2 /\ pc' = NextWait
    /\ UNCHANGED <<queueVars, isServer, data, streamVars, portVars, sendVars>>

ThirdFrame ==
    /\ pc = "wait3" /\ jpeg_data_ok = 1
    /\ capture' = "stopping" /\ pc' = "stop"
    /\ UNCHANGED <<queueVars, isServer, jpeg_data_ok, data, streamVars, w, size, sendVars>>

Stopped ==
    /\ pc = "stop" /\ capture = "off"
    /\ enabled' = FALSE /\ pc' = "send"
    /\ UNCHANGED <<queueVars, isServer, jpeg_data_ok, data, target, count, pos, buffer,
                   portVars, sendVars>>

\* Whole pieces less HELD: fewer of them than HELD make it a huge number.  (The head
\* of the picture, which the code looks for, is at its beginning.)
Pieces == (Len(data) \div PIECE - HELD) % RANGE

\* What is at pbuf: the picture, and behind it what was there before.
At(k) == IF k <= Len(data) THEN data[k] ELSE Old

PieceSent ==
    /\ pc = "send" /\ piece < Pieces
    /\ piece' = piece + 1
    /\ out' = out \o [k \in 1 .. PIECE |-> At(piece * PIECE + k)]
    /\ UNCHANGED <<queueVars, pc, isServer, jpeg_data_ok, data, streamVars, portVars>>

PieceNotSent ==
    /\ pc = "send" /\ piece < Pieces
    /\ camera_start' = "STOP" /\ pc' = "broken"
    /\ UNCHANGED <<camera_event, isServer, jpeg_data_ok, data, streamVars, portVars, sendVars>>

PiecesSent ==
    /\ pc = "send" /\ piece >= Pieces
    /\ pc' = "end"
    /\ UNCHANGED <<queueVars, isServer, jpeg_data_ok, data, streamVars, portVars, sendVars>>

\* The end of the picture is sent, whatever became of its pieces.
EndSent ==
    /\ pc \in {"end", "broken"}
    /\ data' = <<>> /\ pc' = "video" /\ piece' = 0 /\ out' = <<>>
    /\ UNCHANGED <<queueVars, isServer, jpeg_data_ok, streamVars, portVars>>

\* When it could not be, jpeg_data_len stays as it is.
EndNotSent ==
    /\ pc \in {"end", "broken"}
    /\ camera_start' = "STOP" /\ pc' = "video" /\ piece' = 0 /\ out' = <<>>
    /\ UNCHANGED <<camera_event, isServer, jpeg_data_ok, data, streamVars, portVars>>

CameraTask ==
    \/ LookAtStart \/ TakeAuth \/ TakeCamera \/ VideoEnds \/ StartNotSent \/ StartSent
    \/ LetGo \/ ThirdFrame \/ Stopped
    \/ PieceSent \/ PieceNotSent \/ PiecesSent \/ EndSent \/ EndNotSent
Port == PortWord \/ FrameEnd \/ PortStops
CameraNext ==
    \/ CameraTask \/ Port \/ ServerCommand
    \/ \E res \in {"START", "STOP"} : UserCommand(res)

CameraSpec == CameraInit /\ [][CameraNext]_cameraVars
CameraFairSpec == CameraSpec /\ WF_cameraVars(CameraTask) /\ WF_cameraVars(Port)

-----------------------------------------------------------------------------
(* Properties.                                                             *)

(* What is sent of a picture of at least HELD pieces is the beginning of   *)
(* one frame, without a gap, and never what lies behind it, although       *)
(* jpeg_data_ok is 1 from the picture before, the stream goes on in the    *)
(* middle of a buffer and jpeg_data_len may be that of a picture that was  *)
(* not sent; and when the loop ends without a failed write, only the last  *)
(* HELD whole pieces and what is less than a piece are missing.            *)
WholePicture ==
    pc \in {"send", "end", "broken"} /\ size \div PIECE >= HELD =>
        /\ out = [n \in 1 .. Len(out) |-> Word(n)]
        /\ Len(out) + HELD * PIECE <= size
        /\ pc = "end" => size < Len(out) + (HELD + 1) * PIECE

(* The interrupts write inside jpeg_data_buf.                              *)
InBuffer == Len(data) <= DATASIZE

(* A video that is to be is sent: the task does not wait for a frame, for  *)
(* a buffer of a command or for the port for ever, whatever the commands   *)
(* before have left in camera_event.                                       *)
Films == []<>(camera_start = "STOP" \/ pc = "send")

=============================================================================
