------------------------------- MODULE Player -------------------------------
(***************************************************************************)
(* The program from its arguments to its exit status: src/saugns.c,        *)
(* src/builder/builder.c, src/player/player.c with audiodev.c, wavfile.c,  *)
(* and the three kinds of audio device (audiodev/).                        *)
(*                                                                         *)
(* A program is known by its length in units of time.  A generator is the  *)
(* number of samples it has left: each call to SAU_Interp_run() returns as *)
(* many of them as asked for as long as there are, and less only at the    *)
(* end (ShortReturnIsTheEnd and CountsToTheEnd in Interp).                 *)
(*                                                                         *)
(* Opening, creating, allocating and writing may fail.  A write to an ALSA *)
(* device is retried after an underrun; the retries are stuttering steps.  *)
(***************************************************************************)
EXTENDS Values, Integers, Sequences, Functions, FiniteSets

CONSTANTS
    Options,      \* option letters that are given, of "a", "c", "m", "o", "r"
    MaxOptions,   \* BOUND: options on the command line
    MaxScripts,   \* BOUND: scripts on the command line
    Lengths,      \* lengths of programs, in units of time
    DefaultSrate, \* SAU_DEFAULT_SRATE, in samples per unit
    Platforms,    \* what it is compiled for, of "linux", "openbsd" and "other"
    Srates,       \* sample rates that "-r" asks for
    DevRates,     \* sample rates that a device settles for
    BufTime,      \* BUF_TIME_MS, in units
    FrameBytes,   \* NUM_CHANNELS * SOUND_BYTES
    WordSize      \* number of values of uint32_t

ASSUME PlayerAssumption ==
    /\ Options \subseteq {"a", "c", "m", "o", "r"}
    /\ Platforms \subseteq {"linux", "openbsd", "other"}
    /\ Lengths \cup {BufTime, FrameBytes} \subseteq Nat
    /\ Srates \cup DevRates \cup {DefaultSrate, WordSize} \subseteq Nat \ {0}
    /\ MaxScripts \in Nat /\ None \notin Nat

VARIABLES
    phase,   \* where main() is; "undefined" once it uses what is closed
    flags,   \* the SAU_ARG_* flags, and "wav" for a wav_path
    srate,   \* the sample rate asked for
    progs,   \* prg_objs: lengths, or None for what was not built
    at,      \* index of the program that is played
    out,     \* SAU_Output: ad (the rate, None if NULL), wf and what they are;
             \*   in dev, the platform, the type of device and the handles open
    gen,     \* samples the generator has left
    error,   \* local of SAU_Output_run()
    status,  \* local of SAU_play()
    exit,    \* exit status, None before
    given,   \* history: the options given
    device,  \* history: samples the device took
    file,    \* history: the samples in the WAV file, and its header
    failed   \* history: what failed after the scripts passed checks

local_  == <<out, gen, error, status>>
history == <<given, device, file, failed>>
playerVars == <<phase, flags, srate, progs, at, local_, exit, history>>

Lesser(a, b)  == IF a < b THEN a ELSE b
Greater(a, b) == IF a > b THEN a ELSE b

-----------------------------------------------------------------------------
(* saugns.c: parse_args(), then builder.c *)

(* The flags that rule an option out, and those it sets. *)
ExcludesOnlyCheck(c) == IF c = "c" THEN {"full"} ELSE {"check"}

Excludes(c) == CASE c = "a" -> {"disable", "check"}
                 [] c = "m" -> {"enable", "check"}
                 [] c = "c" -> {"full"}
                 [] OTHER   -> {"check"}

Sets(c) == CASE c = "a" -> {"full", "enable"}
             [] c = "m" -> {"full", "disable"}
             [] c = "c" -> {"check"}
             [] c = "o" -> {"full", "wav"}
             [] c = "r" -> {"full"}

Exit(s) == phase' = "exited" /\ exit' = s

parse_option(c) ==
    /\ phase = "args" /\ Len(given) < MaxOptions
    /\ given' = Append(given, c)
    /\ IF Excludes(c) \cap flags # {}
       THEN Exit(0) /\ UNCHANGED <<flags, srate>>
       ELSE /\ flags' = flags \cup Sets(c)
            /\ IF c = "r" THEN srate' \in Srates ELSE UNCHANGED srate
            /\ UNCHANGED <<phase, exit>>
    /\ UNCHANGED <<progs, at, local_, device, file, failed>>

ScriptArgs ==
    /\ phase = "args"
    /\ phase' = "build"
    /\ UNCHANGED <<flags, srate, progs, at, local_, exit, history>>

(* SAU_build(): each script becomes a program or NULL, and is listed. *)
BuildScript ==
    /\ phase = "build" /\ Len(progs) < MaxScripts
    /\ \E prg \in Lengths \cup {None} : progs' = Append(progs, prg)
    /\ UNCHANGED <<phase, flags, srate, at, local_, exit, history>>

Built ==
    /\ phase = "build" /\ progs # <<>>
    /\ IF \A k \in DOMAIN progs : progs[k] = None
       THEN Exit(1)
       ELSE /\ phase' = IF "check" \in flags THEN "play" ELSE "open"
            /\ UNCHANGED exit
    /\ UNCHANGED <<flags, srate, progs, at, local_, history>>

-----------------------------------------------------------------------------
(* SAU_init_Output() and SAU_fini_Output() *)

UseAudiodev == IF "wav" \in flags THEN "enable" \in flags ELSE "disable" \notin flags

(* SAU_close_WAVFile() updates the header; what the file then has: *)
ClosedHeader(samples) ==
    LET bytes == (FrameBytes * samples) % WordSize
    IN  [riff |-> (36 + bytes) % WordSize, data |-> bytes]

(* SAU_fini_Output(), which keeps the pointers to what it frees.  ferror()  *)
(* tells of a write that failed, before or on closing.                     *)
FerrorValues == IF out.wf = "open" THEN {out.wf_error, TRUE} ELSE {FALSE}

close_AudioDev(dev) == [dev EXCEPT !.handles = @ \ {dev.type}]

fini_Output(o) ==
    /\ out' = [o EXCEPT !.ad_open = FALSE, !.buf = FALSE,
                        !.dev = IF o.ad_open THEN close_AudioDev(@) ELSE @,
                        !.wf = IF @ = "open" THEN "closed" ELSE @]
    /\ file' = IF o.wf = "open" THEN [file EXCEPT !.header = ClosedHeader(o.samples)]
                               ELSE file

(* goto ERROR: what SAU_fini_Output() returns is returned. *)
InitFails(o) ==
    /\ fini_Output(o)
    /\ failed' = failed \cup {"init"}
    /\ \E ferror \in FerrorValues :
          IF ferror THEN Exit(1) ELSE phase' = "play" /\ UNCHANGED exit

InitGoesOn(o, next) ==
    /\ out' = o /\ phase' = next
    /\ UNCHANGED <<exit, file, failed>>

RestKept == UNCHANGED <<flags, srate, progs, at, gen, error, status, given, device>>

(* A device that does not support the rate asked for settles for another.  *)
OpenedRates == DevRates \cup {srate}

Opened(type, handles) ==
    \E rate \in OpenedRates :
        InitGoesOn([out EXCEPT !.ad = rate, !.ad_open = TRUE, !.dev.type = type,
                               !.dev.handles = handles], "create")

NoAudioDev ==
    /\ phase = "open" /\ ~UseAudiodev
    /\ InitGoesOn(out, "create")
    /\ RestKept

(* OSS is for when the first call to ALSA fails; when a later one does, what *)
(* is open is closed, and the parameters are freed.  (They are never freed  *)
(* otherwise.)                                                             *)
open_linux ==
    /\ phase = "open" /\ UseAudiodev /\ out.dev.on = "linux"
    /\ \/ Opened("alsa", {"alsa", "hw_params"})
       \/ InitGoesOn(out, "fallback")
       \/ InitFails(out)
    /\ RestKept

(* The file is closed again when it cannot be set up as needed.            *)
open_oss ==
    /\ phase = "fallback" \/ (phase = "open" /\ UseAudiodev /\ out.dev.on = "other")
    /\ Opened("oss", {"oss"}) \/ InitFails(out)
    /\ RestKept

(* The handle is not closed when it cannot be set up.                      *)
open_sndio ==
    /\ phase = "open" /\ UseAudiodev /\ out.dev.on = "openbsd"
    /\ \/ Opened("sndio", {"sndio"})
       \/ \E left \in {{}, {"sndio"}} : InitFails([out EXCEPT !.dev.handles = left])
    /\ RestKept

CreateWAVFile ==
    /\ phase = "create"
    /\ IF "wav" \in flags
       THEN InitGoesOn([out EXCEPT !.wf = "open"], "alloc") \/ InitFails(out)
       ELSE InitGoesOn(out, "alloc")
    /\ RestKept

(* The buffer is as long as the higher rate needs when both are in use. *)
MaxSrate == IF out.ad # None /\ (out.wf = "none" \/ out.ad > srate) THEN out.ad ELSE srate

AllocBuffer ==
    /\ phase = "alloc"
    /\ LET o == [out EXCEPT !.ch_len = Greater(1, BufTime * MaxSrate)]
       IN  InitGoesOn([o EXCEPT !.buf = TRUE], "play") \/ InitFails(o)
    /\ RestKept

-----------------------------------------------------------------------------
(* SAU_play() and SAU_Output_run() *)

SkipNullStaying ==
    /\ phase = "play" /\ at <= Len(progs) /\ progs[at] = None
    /\ UNCHANGED playerVars

SkipNull ==
    /\ phase = "play" /\ at <= Len(progs) /\ progs[at] = None
    /\ at' = at + 1
    /\ UNCHANGED <<phase, flags, srate, progs, local_, exit, history>>

Undefined ==
    /\ phase' = "undefined"
    /\ UNCHANGED <<flags, srate, progs, at, local_, exit, history>>

(* Two passes, when the device and the file are of different rates. *)
Split == out.ad # None /\ out.wf # "none" /\ out.ad # srate

OutputFails ==
    /\ status' = FALSE /\ failed' = failed \cup {"generator"}
    /\ phase' = "play" /\ at' = at + 1

BeginOutput ==
    /\ phase = "play" /\ at <= Len(progs) /\ progs[at] # None
    /\ IF out.ad # None /\ ~out.ad_open THEN Undefined
       ELSE /\ \/ OutputFails /\ UNCHANGED <<gen, error>>
               \/ /\ gen' = progs[at] * (IF out.ad # None THEN out.ad ELSE srate)
                  /\ error' = FALSE
                  /\ phase' = CASE "check" \in flags -> "done"
                                [] Split            -> "device"
                                [] OTHER            -> "run"
                  /\ UNCHANGED <<at, status, failed>>
            /\ UNCHANGED <<flags, srate, progs, out, exit, given, device, file>>

(* What SAU_Interp_run() returns. *)
RunLen == Lesser(gen, out.ch_len)

(* A write of n samples took k of them; device_write() and file_write().  *)
Taken(n, ok) == IF ok THEN {n} ELSE 0..(n - 1)

AddTo(written, k) == [written EXCEPT ![at] = @ + k]

device_write(ok) ==
    \E k \in Taken(RunLen, ok) : device' = AddTo(device, k)

file_writeAsAsked(ok) ==
    \E k \in Taken(RunLen, ok) :
        /\ file' = [file EXCEPT !.data = AddTo(@, k)]
        /\ out' = [out EXCEPT !.samples = (@ + RunLen) % WordSize, !.wf_error = @ \/ ~ok]

file_write(ok) ==
    \E k \in Taken(RunLen, ok) :
        /\ file' = [file EXCEPT !.data = AddTo(@, k)]
        /\ out' = [out EXCEPT !.samples = (@ + k) % WordSize, !.wf_error = @ \/ ~ok]

Wrote(device_ok, file_ok) ==
    /\ gen' = gen - RunLen
    /\ error' = (error \/ ~device_ok \/ ~file_ok)
    /\ failed' = failed \cup (IF device_ok THEN {} ELSE {"device"})
                         \cup (IF file_ok THEN {} ELSE {"file"})

(* The loop of the device alone, and what follows it. *)
RunForDevice ==
    /\ phase = "device" /\ RunLen > 0
    /\ \E ok \in BOOLEAN : device_write(ok) /\ Wrote(ok, TRUE)
    /\ UNCHANGED <<phase, flags, srate, progs, at, out, status, exit, given, file>>

NewGeneratorForgotten ==
    /\ phase = "device" /\ RunLen = 0
    /\ phase' = "run"
    /\ UNCHANGED <<flags, srate, progs, at, local_, exit, history>>

NewGenerator ==
    /\ phase = "device" /\ RunLen = 0
    /\ \/ OutputFails /\ UNCHANGED gen
       \/ /\ gen' = progs[at] * srate
          /\ phase' = "run"
          /\ UNCHANGED <<at, status, failed>>
    /\ UNCHANGED <<flags, srate, progs, out, error, exit, given, device, file>>

(* The loop of both, or of the one there is. *)
RunOutput ==
    /\ phase = "run" /\ RunLen > 0
    /\ IF ~out.buf \/ out.wf = "closed" THEN Undefined
       ELSE LET to_device == out.ad # None /\ ~Split
                to_file   == out.wf = "open"
            IN  /\ \E dev_ok \in (IF to_device THEN BOOLEAN ELSE {TRUE}),
                      file_ok \in (IF to_file THEN BOOLEAN ELSE {TRUE}) :
                    /\ IF to_device THEN device_write(dev_ok) ELSE UNCHANGED device
                    /\ IF to_file THEN file_write(file_ok) ELSE UNCHANGED <<file, out>>
                    /\ Wrote(dev_ok, file_ok)
                /\ UNCHANGED <<phase, flags, srate, progs, at, status, exit, given>>

OutputOver == (phase = "run" /\ RunLen = 0) \/ phase = "done"

EndOutputOverwriting ==
    /\ OutputOver
    /\ status' = ~error
    /\ phase' = "play" /\ at' = at + 1
    /\ UNCHANGED <<flags, srate, progs, out, gen, error, exit, history>>

EndOutput ==
    /\ OutputOver
    /\ status' = (status /\ ~error)
    /\ phase' = "play" /\ at' = at + 1
    /\ UNCHANGED <<flags, srate, progs, out, gen, error, exit, history>>

EndPlay ==
    /\ phase = "play" /\ at > Len(progs)
    /\ IF out.wf = "closed" \/ (out.ad # None /\ ~out.ad_open) THEN Undefined
       ELSE /\ fini_Output(out)
            /\ \E ferror \in FerrorValues :
                 /\ Exit(IF status /\ ~ferror THEN 0 ELSE 1)
                 /\ failed' = IF ferror THEN failed \cup {"file"} ELSE failed
            /\ UNCHANGED <<flags, srate, progs, at, gen, error, status, given, device>>

-----------------------------------------------------------------------------
PlayerInit ==
    /\ phase = "args" /\ flags = {} /\ srate = DefaultSrate /\ progs = <<>> /\ at = 1
    /\ \E on \in Platforms : out =
             [ad |-> None, ad_open |-> FALSE, wf |-> "none", wf_error |-> FALSE,
              samples |-> 0, ch_len |-> 0, buf |-> FALSE, dev |-> [on |-> on, type |-> "none", handles |-> {}]]
    /\ gen = 0 /\ error = FALSE /\ status = TRUE /\ exit = None
    /\ given = <<>> /\ failed = {}
    /\ device = [k \in 1..MaxScripts |-> 0]
    /\ file = [data |-> [k \in 1..MaxScripts |-> 0], header |-> [riff |-> 36, data |-> 0]]

PlayerNext ==
    \/ \E c \in Options : parse_option(c)
    \/ ScriptArgs \/ BuildScript \/ Built
    \/ NoAudioDev \/ open_linux \/ open_oss \/ open_sndio \/ CreateWAVFile \/ AllocBuffer
    \/ SkipNull \/ BeginOutput \/ RunForDevice \/ NewGenerator \/ RunOutput
    \/ EndOutput \/ EndPlay

PlayerSpec == PlayerInit /\ [][PlayerNext]_playerVars

(* Nothing waits for anything but calls that return.                       *)
PlayerFairSpec == PlayerSpec /\ WF_playerVars(PlayerNext)

-----------------------------------------------------------------------------
(* Properties *)

(* The pointers and what they point to, and the types of the rest.         *)
PlayerTypeOK ==
    /\ phase \in {"args", "build", "open", "fallback", "create", "alloc", "play", "device", "run",
                  "done", "exited", "undefined"}
    /\ out.ad_open => out.ad # None
    /\ out.samples \in 0..(WordSize - 1) /\ out.ch_len \in Nat /\ gen \in Nat
    /\ phase \in {"device", "run", "done"} => at \in DOMAIN progs /\ progs[at] # None
    /\ exit # None <=> phase = "exited"

SndioKept == out.dev.on = "openbsd" /\ out.ad = None /\ out.dev.handles # {}

(* The device is used as the options say, in whatever order they came: by  *)
(* default, but with "-o" only if "-a" is given ("disables audio device    *)
(* output by default"), never with "-m" or with "-c" (man/saugns.1:43-52). *)
(* What is open is that device, in whichever way it was opened, until it is *)
(* closed: "Destroys the instance" (audiodev.c:92).  (The code does not     *)
(* close an sndio device that it could not set up.)                        *)
DeviceUsedAsAsked ==
    LET asked == Range(given)
    IN  /\ phase \notin {"args", "build", "open", "fallback", "exited"} /\ "init" \notin failed
           => (out.ad # None <=> /\ asked \cap {"m", "c"} = {}
                                 /\ "o" \in asked => "a" \in asked)
        /\ phase \notin {"args", "exited"} => ~({"a", "m"} \subseteq asked)
        /\ out.dev.handles \cap {"alsa", "oss", "sndio"} =
              IF out.ad_open THEN {out.dev.type}
              ELSE IF SndioKept THEN {"sndio"} ELSE {}

(* Each program is heard and written whole and once, at the rate of each,  *)
(* when nothing failed.                                                    *)
SinksGetAllPrograms ==
    phase = "exited" /\ failed = {} /\ "check" \notin flags /\ at > Len(progs) =>
        \A k \in DOMAIN progs : progs[k] # None =>
            /\ out.ad # None => device[k] = progs[k] * out.ad
            /\ out.wf # "none" => file.data[k] = progs[k] * srate

(* A file that was closed has the size of its data in its header, "the     *)
(* total length/size of audio data written" (wavfile.c:107-108) ...        *)
Total(data) ==
    LET sum[k \in 0..Len(data)] == IF k = 0 THEN 0 ELSE sum[k - 1] + data[k]
    IN  sum[Len(data)]

Size == FrameBytes * Total(file.data)

HeaderTellsSize ==
    out.wf = "closed" => file.header = [riff |-> 36 + Size, data |-> Size]

(* ... for data of less than 4 GiB, and after failed writes as well.       *)
HeaderTellsSizeThatFits == 36 + Size < WordSize => HeaderTellsSize

(* "[I]f any errors occured after checks (during interpretation and audio  *)
(* output), 1 is returned" (man/saugns.1:87-88), and else 0.               *)
ExitTellsOfErrors ==
    phase = "exited" /\ (\E k \in DOMAIN progs : progs[k] # None) =>
        (exit = 0 <=> failed = {})

(* It is, for each error in whichever program, once the output is set up;  *)
(* and what was closed is not used then.                                   *)
ErrorsAreToldOf ==
    "init" \notin failed => ExitTellsOfErrors /\ phase # "undefined"

(* Whatever fails, the program comes to an end.                            *)
ComesToAnEnd == <>(phase \in {"exited", "undefined"})
=============================================================================
