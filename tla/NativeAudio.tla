----------------------------- MODULE NativeAudio -----------------------------
(***************************************************************************)
(* Sound on the native port of the Abstract Machine                        *)
(* (am/src/native/ioe/audio.c): the program writes samples into a pipe     *)
(* that does not block, SDL's audio thread reads them in its callback      *)
(* audio_play, and the static count, which both change without a lock,     *)
(* says how many samples are in between.  count += n and count -= nread    *)
(* are a load and a store each.                                            *)
(*                                                                         *)
(* The program is the audio test (am-tests/src/tests/audio.c), which plays *)
(* a file in chunks and then waits for count to reach 0.                   *)
(***************************************************************************)
EXTENDS Integers

CONSTANTS
  AudioLen,         \* samples of the file
  Chunk,            \* the most a program writes at once, at most PIPE_BUF:
                    \* such a write is done as a whole or not at all
  PipeSize,         \* what the pipe holds
  StreamLen         \* len: what SDL asks for in one callback

VARIABLES
  count,
  pipe,             \* samples in the pipe
  player,           \* control point of the program
  left,             \* samples of the file not handed to audio_write yet
  len, nwrite, n,   \* audio_write's variables
  loaded,           \* count as audio_write's += loaded it
  callback,         \* control point of audio_play
  nread, b,         \* audio_play's variables
  cb_loaded         \* count as audio_play's -= loaded it

playerVars == <<player, left, len, nwrite, n, loaded>>
callbackVars == <<callback, nread, b, cb_loaded>>
vars == <<count, pipe, playerVars, callbackVars>>

min(x, y) == IF x < y THEN x ELSE y

Init ==
  /\ count = 0 /\ pipe = 0
  /\ player = "play" /\ left = AudioLen /\ len = 0 /\ nwrite = 0 /\ n = 0 /\ loaded = 0
  /\ callback = "idle" /\ nread = 0 /\ b = 0 /\ cb_loaded = 0

-----------------------------------------------------------------------------
(* The program and audio_write                                             *)

play ==
  /\ player = "play" /\ left > 0
  /\ len' = min(Chunk, left)
  /\ left' = left - len'
  /\ nwrite' = 0
  /\ player' = "write"
  /\ UNCHANGED <<count, pipe, n, loaded, callbackVars>>

\* write(): everything, or EAGAIN, which counts as 0.
write ==
  /\ player = "write"
  /\ n' = IF pipe + len <= PipeSize THEN len ELSE 0
  /\ pipe' = pipe + n'
  /\ player' = "load"
  /\ UNCHANGED <<count, left, len, nwrite, loaded, callbackVars>>

load ==
  /\ player = "load"
  /\ loaded' = count
  /\ player' = "store"
  /\ UNCHANGED <<count, pipe, left, len, nwrite, n, callbackVars>>

\* The other half of count += n, nwrite += n, and the loop's test.
store ==
  /\ player = "store"
  /\ count' = loaded + n
  /\ nwrite' = nwrite + n
  /\ player' = IF nwrite' < len THEN "write" ELSE "play"
  /\ UNCHANGED <<pipe, left, len, n, loaded, callbackVars>>

\* The audio test's last loop.
wait ==
  /\ player = "play" /\ left = 0
  /\ count = 0
  /\ player' = "end"
  /\ UNCHANGED <<count, pipe, left, len, nwrite, n, loaded, callbackVars>>

-----------------------------------------------------------------------------
(* audio_play                                                              *)

\* count is read for the test ...
start ==
  /\ callback = "idle"
  /\ IF count < StreamLen
       THEN callback' = "size" /\ UNCHANGED nread
       ELSE callback' = "read" /\ nread' = StreamLen
  /\ b' = 0
  /\ UNCHANGED <<count, pipe, playerVars, cb_loaded>>

\* ... and again for the size.
size ==
  /\ callback = "size"
  /\ nread' = count
  /\ callback' = "read"
  /\ UNCHANGED <<count, pipe, playerVars, b, cb_loaded>>

\* One turn of the loop; with the pipe empty it spins.
read ==
  /\ callback = "read" /\ b < nread
  /\ pipe > 0
  /\ LET k == min(nread, pipe) IN pipe' = pipe - k /\ b' = b + k
  /\ UNCHANGED <<count, playerVars, callback, nread, cb_loaded>>

cb_load ==
  /\ callback = "read" /\ b >= nread
  /\ cb_loaded' = count
  /\ callback' = "store"
  /\ UNCHANGED <<count, pipe, playerVars, nread, b>>

cb_store ==
  /\ callback = "store"
  /\ count' = cb_loaded - nread
  /\ callback' = "idle"
  /\ UNCHANGED <<pipe, playerVars, nread, b, cb_loaded>>

-----------------------------------------------------------------------------
Player == play \/ write \/ load \/ store \/ wait
AudioPlay == size \/ read \/ cb_load \/ cb_store

Next == Player \/ start \/ AudioPlay

\* The program and the audio thread run; SDL calls the callback periodically.
Spec == Init /\ [][Next]_vars /\ WF_vars(Player) /\ WF_vars(start) /\ WF_vars(AudioPlay)

-----------------------------------------------------------------------------
\* The comment on the audio test's last loop, "wait until the audio finishes": it
\* does finish, and the loop ends.
WaitEnds == <>(player = "end")
==============================================================================
