---------------------------- MODULE Player_proofs ----------------------------
(***************************************************************************)
(* Machine-checked proofs about Player, for every choice of options in any *)
(* order, of scripts, rates, failures and platforms.                       *)
(***************************************************************************)
EXTENDS Player, ProofFacts

-----------------------------------------------------------------------------
(***************************************************************************)
(* The types.                                                              *)
(***************************************************************************)

SettingUp == {"args", "build", "open", "fallback", "create", "alloc"}
Playing   == {"play", "device", "run", "done"}
Phases    == SettingUp \cup Playing \cup {"exited", "undefined"}

Devices == {"alsa", "oss", "sndio"}

OutData == [ad : Nat \cup {None}, ad_open : BOOLEAN, wf : {"none", "open", "closed"},
            wf_error : BOOLEAN, samples : 0..(WordSize - 1), ch_len : Nat, buf : BOOLEAN,
            dev : [on : Platforms, type : Devices \cup {"none"},
                   handles : SUBSET (Devices \cup {"hw_params"})]]

Written  == [1..MaxScripts -> Nat]
FileData == [data : Written, header : [riff : Nat, data : Nat]]

Types ==
  /\ phase \in Phases
  /\ flags \subseteq {"full", "enable", "disable", "check", "wav"}
  /\ srate \in Nat \ {0}
  /\ progs \in Seq(Nat \cup {None}) /\ Len(progs) <= MaxScripts
  /\ at \in 1..(Len(progs) + 1)
  /\ out \in OutData
  /\ gen \in Nat /\ error \in BOOLEAN /\ status \in BOOLEAN
  /\ exit \in {0, 1, None} /\ (exit # None <=> phase = "exited")
  /\ given \in Seq(Options)
  /\ device \in Written /\ file \in FileData
  /\ failed \subseteq {"init", "generator", "device", "file"}
  /\ phase \in {"device", "run", "done"} => at <= Len(progs) /\ progs[at] # None

-----------------------------------------------------------------------------
(***************************************************************************)
(* The options, and what is set up by them.                                *)
(***************************************************************************)

\* The flags tell which options were given, unless one was ruled out.
FlagsTell ==
  phase # "exited" =>
    LET asked == Range(given) IN
    /\ "enable" \in flags <=> "a" \in asked
    /\ "disable" \in flags <=> "m" \in asked
    /\ "check" \in flags <=> "c" \in asked
    /\ "wav" \in flags <=> "o" \in asked
    /\ "full" \in flags <=> asked \cap {"a", "m", "o", "r"} # {}
    /\ ~ {"enable", "disable"} \subseteq flags
    /\ ~ {"check", "full"} \subseteq flags

\* Nothing is open.
Fresh(o) == o.ad = None /\ ~o.ad_open /\ o.wf = "none" /\ ~o.buf

\* The device is open, if it is to be used.
DeviceReady(o, use) ==
  /\ o.ad # None <=> use
  /\ o.ad_open <=> use

\* The file is as well.
FileReady(o, wav) == o.wf = IF wav THEN "open" ELSE "none"

SetUp ==
  /\ phase \in SettingUp => at = 1 /\ failed = {} /\ status = TRUE
  /\ phase = "args" => progs = <<>>
  /\ phase \in {"args", "build", "open", "fallback"} => Fresh(out) /\ out.dev.handles = {}
  /\ phase \in {"open", "fallback", "create", "alloc", "device", "run"} => "check" \notin flags
  /\ phase \in {"open", "fallback", "create", "alloc"} => ~out.buf
  /\ phase = "fallback" => UseAudiodev
  /\ phase \in {"create", "alloc"} => DeviceReady(out, UseAudiodev)
  /\ phase = "create" => out.wf = "none"
  /\ phase = "alloc" => FileReady(out, "wav" \in flags)
  /\ phase \in Playing /\ "check" \in flags => Fresh(out) /\ "init" \notin failed
  /\ phase \in Playing /\ "check" \notin flags /\ "init" \notin failed =>
       /\ DeviceReady(out, UseAudiodev) /\ FileReady(out, "wav" \in flags)
       /\ out.buf /\ out.ch_len > 0
  /\ phase \in Playing /\ "init" \in failed => out.wf # "open"
  /\ phase = "device" => Split
  /\ phase = "done" => "check" \in flags
  /\ phase = "undefined" => "init" \in failed

\* What is open is the device; or it is what sndio has left.
Handles(o) ==
  /\ o.ad_open => /\ o.ad # None /\ o.dev.type \in Devices
                  /\ o.dev.handles \cap Devices = {o.dev.type}
  /\ ~o.ad_open /\ o.ad # None => o.dev.handles \cap Devices = {}
  /\ o.ad = None => \/ o.dev.handles = {}
                    \/ o.dev.handles = {"sndio"} /\ o.dev.on = "openbsd"

-----------------------------------------------------------------------------
(***************************************************************************)
(* What is delivered.                                                      *)
(***************************************************************************)

\* The device and the file got all of program k.
GotAll(k) == /\ out.ad # None => device[k] = progs[k] * out.ad
             /\ out.wf # "none" => file.data[k] = progs[k] * srate

\* What they have got and what is still to come make up the program.
DeviceGotAll  == out.ad # None => device[at] = progs[at] * out.ad
DeviceGetsAll == out.ad # None => device[at] + gen = progs[at] * out.ad
FileGetsAll   == out.wf # "none" => file.data[at] + gen = progs[at] * srate

NothingYet(k) == device[k] = 0 /\ file.data[k] = 0

Delivered ==
  /\ phase \in SettingUp \cup Playing =>
       \A k \in 1..MaxScripts : k > at \/ (k = at /\ phase \notin {"device", "run"})
          => NothingYet(k)
  /\ phase = "device" => file.data[at] = 0
  /\ phase \in Playing /\ failed = {} /\ "check" \notin flags =>
       /\ \A k \in 1..(at - 1) : progs[k] # None => GotAll(k)
       /\ phase = "device" => DeviceGetsAll
       /\ phase = "run" => /\ Split => DeviceGotAll
                           /\ ~Split => DeviceGetsAll
                           /\ FileGetsAll
  /\ SinksGetAllPrograms

-----------------------------------------------------------------------------
(***************************************************************************)
(* What is told of it.                                                     *)
(***************************************************************************)

ErrorsKept ==
  /\ phase = "play" /\ "init" \notin failed => (status <=> failed = {})
  /\ phase \in {"device", "run", "done"} /\ "init" \notin failed =>
       ((status /\ ~error) <=> failed = {})
  /\ "init" \notin failed => ExitTellsOfErrors

HeaderKept ==
  /\ out.samples = (Total(file.data) % WordSize)
  /\ out.wf = "closed" => file.header = ClosedHeader(out.samples)

-----------------------------------------------------------------------------
(***************************************************************************)
(* What the steps make of the output.                                      *)
(***************************************************************************)

\* Facts about the constants.
LEMMA ConstantTypes ==
        /\ None \notin Nat /\ MaxScripts \in Nat
        /\ WordSize \in Nat \ {0} /\ FrameBytes \in Nat /\ BufTime \in Nat
        /\ DefaultSrate \in Nat \ {0} /\ Srates \subseteq Nat \ {0} /\ DevRates \subseteq Nat \ {0}
        /\ Lengths \subseteq Nat
BY PlayerAssumption

LEMMA HeaderType ==
  ASSUME NEW s \in Nat
  PROVE  ClosedHeader(s) \in [riff : Nat, data : Nat]
<1>1. FrameBytes * s \in Nat
  BY ConstantTypes
<1>2. \A x \in Nat : (x % WordSize) \in Nat
  BY ConstantTypes
<1>3. PICK b \in Nat : b = ((FrameBytes * s) % WordSize)
  BY <1>1, <1>2
<1>4. ((36 + b) % WordSize) \in Nat
  BY <1>2, <1>3
<1>5. QED
  BY <1>3, <1>4 DEF ClosedHeader

\* Clean-up closes what is open and writes the header of the file.
LEMMA FiniIs ==
  ASSUME NEW o \in OutData, fini_Output(o), file \in FileData
  PROVE  /\ out' \in OutData /\ ~out'.ad_open /\ ~out'.buf
         /\ out'.ad = o.ad /\ out'.samples = o.samples /\ out'.dev.on = o.dev.on
         /\ o.ad_open => out'.dev.handles = o.dev.handles \ {o.dev.type}
         /\ ~o.ad_open => out'.dev.handles = o.dev.handles
         /\ o.wf = "open" => out'.wf = "closed" /\ file'.header = ClosedHeader(o.samples)
         /\ o.wf # "open" => out'.wf = o.wf /\ file' = file
         /\ file' \in FileData /\ file'.data = file.data
<1>1. o.samples \in Nat /\ o.dev \in [on : Platforms, type : Devices \cup {"none"},
                                     handles : SUBSET (Devices \cup {"hw_params"})]
  BY ConstantTypes DEF OutData
<1>2. close_AudioDev(o.dev) = [o.dev EXCEPT !.handles = o.dev.handles \ {o.dev.type}]
  BY DEF close_AudioDev
<1> DEFINE dev == IF o.ad_open THEN close_AudioDev(o.dev) ELSE o.dev
           wf == IF o.wf = "open" THEN "closed" ELSE o.wf
<1>3. /\ dev \in [on : Platforms, type : Devices \cup {"none"},
                  handles : SUBSET (Devices \cup {"hw_params"})]
      /\ dev.on = o.dev.on
      /\ o.ad_open => dev.handles = o.dev.handles \ {o.dev.type}
      /\ ~o.ad_open => dev.handles = o.dev.handles
  BY <1>1, <1>2
<1>4. out' = [o EXCEPT !.ad_open = FALSE, !.buf = FALSE, !.dev = dev, !.wf = wf]
  BY DEF fini_Output
<1>5. wf \in {"none", "open", "closed"}
  BY DEF OutData
<1>6. /\ out' \in OutData /\ ~out'.ad_open /\ ~out'.buf
      /\ out'.ad = o.ad /\ out'.samples = o.samples /\ out'.dev = dev /\ out'.wf = wf
  <2> HIDE DEF dev, wf
  <2>1. QED
    BY <1>3, <1>4, <1>5 DEF OutData
<1>7. /\ o.wf = "open" => file' = [file EXCEPT !.header = ClosedHeader(o.samples)]
      /\ o.wf # "open" => file' = file
  BY DEF fini_Output
<1>8. ClosedHeader(o.samples) \in [riff : Nat, data : Nat]
  BY <1>1, HeaderType
<1>9. file' \in FileData /\ file'.data = file.data
      /\ (o.wf = "open" => file'.header = ClosedHeader(o.samples))
  BY <1>7, <1>8 DEF FileData
<1>10. QED
  BY <1>3, <1>6, <1>7, <1>9

\* A device that is opened is the one that is open, and nothing else changes.
LEMMA OpenedIs ==
  ASSUME out \in OutData, srate \in Nat \ {0}, NEW type \in Devices,
         NEW handles \in SUBSET (Devices \cup {"hw_params"}), Opened(type, handles)
  PROVE  /\ out' \in OutData /\ out'.ad \in Nat /\ out'.ad # None /\ out'.ad_open
         /\ out'.wf = out.wf /\ out'.buf = out.buf /\ out'.samples = out.samples
         /\ out'.dev.on = out.dev.on /\ out'.dev.type = type /\ out'.dev.handles = handles
         /\ phase' = "create" /\ UNCHANGED <<exit, file, failed>>
<1>1. PICK rate \in OpenedRates :
        InitGoesOn([out EXCEPT !.ad = rate, !.ad_open = TRUE, !.dev.type = type,
                               !.dev.handles = handles], "create")
  BY DEF Opened
<1>2. rate \in Nat /\ rate # None
  BY ConstantTypes DEF OpenedRates
<1>3. out.dev \in [on : Platforms, type : Devices \cup {"none"},
                   handles : SUBSET (Devices \cup {"hw_params"})]
  BY DEF OutData
<1> DEFINE dev == [out.dev EXCEPT !.type = type, !.handles = handles]
<1>4. /\ dev \in [on : Platforms, type : Devices \cup {"none"},
                  handles : SUBSET (Devices \cup {"hw_params"})]
      /\ dev.on = out.dev.on /\ dev.type = type /\ dev.handles = handles
  BY <1>3
<1>5. out' = [out EXCEPT !.ad = rate, !.ad_open = TRUE, !.dev = dev]
  BY <1>1, <1>3 DEF InitGoesOn, OutData
<1>6. phase' = "create" /\ UNCHANGED <<exit, file, failed>>
  BY <1>1 DEF InitGoesOn
<1> HIDE DEF dev
<1>7. QED
  BY <1>2, <1>4, <1>5, <1>6 DEF OutData

\* Setting up goes wrong: what is open is closed, and it goes on with playing
\* or ends.
LEMMA InitFailsIs ==
  ASSUME NEW o, InitFails(o)
  PROVE  /\ fini_Output(o) /\ failed' = failed \cup {"init"}
         /\ \/ phase' = "play" /\ UNCHANGED exit
            \/ phase' = "exited" /\ exit' = 1
BY DEF InitFails, Exit, FerrorValues

\* A buffer is allocated.
LEMMA AllocIs ==
  ASSUME out \in OutData, srate \in Nat \ {0}
  PROVE  LET o == [out EXCEPT !.ch_len = Greater(1, BufTime * MaxSrate)]
             b == [o EXCEPT !.buf = TRUE]
         IN  /\ \A x \in {o, b} :
                  /\ x \in OutData /\ x.ad = out.ad /\ x.ad_open = out.ad_open /\ x.dev = out.dev
                  /\ x.wf = out.wf /\ x.samples = out.samples /\ x.ch_len > 0
             /\ b.buf
<1>1. MaxSrate \in Nat
  BY DEF MaxSrate, OutData
<1>2. BufTime * MaxSrate \in Nat
  BY <1>1, ConstantTypes
<1>3. PICK n \in Nat : n = Greater(1, BufTime * MaxSrate) /\ n > 0
  BY <1>2 DEF Greater
<1> DEFINE o == [out EXCEPT !.ch_len = n]
           b == [o EXCEPT !.buf = TRUE]
<1>4. /\ o \in OutData /\ o.ad = out.ad /\ o.ad_open = out.ad_open /\ o.dev = out.dev
      /\ o.wf = out.wf /\ o.samples = out.samples /\ o.ch_len = n
  BY DEF OutData
<1>5. /\ b \in OutData /\ b.ad = o.ad /\ b.ad_open = o.ad_open /\ b.dev = o.dev
      /\ b.wf = o.wf /\ b.samples = o.samples /\ b.ch_len = n /\ b.buf
  <2> HIDE DEF o
  <2>1. QED
    BY <1>4 DEF OutData
<1>6. QED
  BY <1>3, <1>4, <1>5

-----------------------------------------------------------------------------
(***************************************************************************)
(* What writing does.                                                      *)
(***************************************************************************)

LEMMA RunLenIs ==
  ASSUME gen \in Nat, out \in OutData
  PROVE  /\ RunLen \in Nat /\ RunLen <= gen /\ gen - RunLen \in Nat
         /\ RunLen = 0 => gen = 0 \/ out.ch_len = 0
<1>1. out.ch_len \in Nat
  BY DEF OutData
<1>2. QED
  BY <1>1 DEF RunLen, Lesser

\* Of the samples of a chunk so many are taken, all of them when all is well.
Took(written, writtenNext, k) ==
  writtenNext = [written EXCEPT ![at] = @ + k]

LEMMA TakenIs ==
  ASSUME NEW n \in Nat, n > 0, NEW ok \in BOOLEAN, NEW k \in Taken(n, ok)
  PROVE  k \in 0..n /\ (ok => k = n)
BY DEF Taken

LEMMA TookType ==
  ASSUME NEW w \in Written, NEW v, NEW k \in Nat, Took(w, v, k)
  PROVE  /\ v \in Written
         /\ \A j \in 1..MaxScripts : j # at => v[j] = w[j]
         /\ at \in 1..MaxScripts => v[at] = w[at] + k
<1>1. \A j \in 1..MaxScripts : w[j] \in Nat /\ w[j] + k \in Nat
  BY DEF Written
<1>2. QED
  BY <1>1 DEF Took, Written

\* The error and what has failed are noted together.
LEMMA WroteIs ==
  ASSUME NEW device_ok \in BOOLEAN, NEW file_ok \in BOOLEAN, Wrote(device_ok, file_ok),
         error \in BOOLEAN
  PROVE  \E bad \in SUBSET {"device", "file"} :
            /\ failed' = failed \cup bad
            /\ error' = (error \/ bad # {})
            /\ bad = {} <=> device_ok /\ file_ok
<1> DEFINE bad == (IF device_ok THEN {} ELSE {"device"}) \cup (IF file_ok THEN {} ELSE {"file"})
<1>1. bad \in SUBSET {"device", "file"} /\ (bad = {} <=> device_ok /\ file_ok)
  OBVIOUS
<1>2. failed' = failed \cup bad
  BY DEF Wrote
<1>3. error' = (error \/ ~device_ok \/ ~file_ok)
  BY DEF Wrote
<1>4. error' = (error \/ bad # {})
  BY <1>1, <1>3
<1> HIDE DEF bad
<1>5. QED
  BY <1>1, <1>2, <1>4

\* A turn of the loop of the device alone.
LEMMA RunForDeviceIs ==
  ASSUME Types, RunForDevice
  PROVE  \E d \in Nat, bad \in SUBSET {"device", "file"} :
            /\ Took(device, device', d) /\ gen' = gen - RunLen /\ gen' \in Nat
            /\ bad = {} => d = RunLen
            /\ failed' = failed \cup bad /\ error' = (error \/ bad # {})
<1>1. PICK ok \in BOOLEAN : device_write(ok) /\ Wrote(ok, TRUE)
  BY DEF RunForDevice
<1>2. RunLen \in Nat /\ RunLen > 0 /\ gen - RunLen \in Nat
  BY RunLenIs DEF Types, RunForDevice
<1>3. PICK d \in Taken(RunLen, ok) : device' = AddTo(device, d)
  BY <1>1 DEF device_write
<1>4. d \in 0..RunLen /\ (ok => d = RunLen)
  <2> HIDE DEF RunLen
  <2>1. QED
    BY <1>2, <1>3, TakenIs
<1>5. Took(device, device', d)
  BY <1>3 DEF AddTo, Took
<1>6. PICK bad \in SUBSET {"device", "file"} :
        /\ failed' = failed \cup bad /\ error' = (error \/ bad # {})
        /\ bad = {} <=> ok
  BY <1>1, WroteIs DEF Types
<1>7. gen' = gen - RunLen
  BY <1>1 DEF Wrote
<1>8. d \in Nat /\ (bad = {} => d = RunLen)
  BY <1>2, <1>4, <1>6
<1>9. QED
  BY <1>2, <1>5, <1>6, <1>7, <1>8

\* What the file was given is counted.
LEMMA FileWriteIs ==
  ASSUME Types, RunLen \in Nat, RunLen > 0, NEW ok \in BOOLEAN, file_write(ok)
  PROVE  \E f \in Nat :
            /\ Took(file.data, file'.data, f) /\ file'.header = file.header
            /\ file' \in FileData /\ (ok => f = RunLen)
            /\ out'.samples = ((out.samples + f) % WordSize)
            /\ out' \in OutData /\ out'.ad = out.ad /\ out'.ad_open = out.ad_open
            /\ out'.wf = out.wf /\ out'.dev = out.dev /\ out'.buf = out.buf
            /\ out'.ch_len = out.ch_len
<1>1. PICK f \in Taken(RunLen, ok) :
        /\ file' = [file EXCEPT !.data = AddTo(@, f)]
        /\ out' = [out EXCEPT !.samples = (@ + f) % WordSize, !.wf_error = @ \/ ~ok]
  BY DEF file_write
<1>2. f \in Nat /\ (ok => f = RunLen)
  <2> HIDE DEF RunLen
  <2>1. QED
    BY <1>1, TakenIs
<1>3. file \in FileData /\ out \in OutData
  BY DEF Types
<1>4. AddTo(file.data, f) \in Written /\ Took(file.data, AddTo(file.data, f), f)
  <2>1. Took(file.data, AddTo(file.data, f), f)
    BY DEF Took, AddTo
  <2>2. QED
    BY <1>2, <1>3, <2>1, TookType DEF FileData
<1>5. /\ file' \in FileData /\ file'.data = AddTo(file.data, f) /\ file'.header = file.header
  <2>1. file' = [file EXCEPT !.data = AddTo(file.data, f)]
    BY <1>1, <1>3
  <2>2. QED
    BY <1>3, <1>4, <2>1 DEF FileData
<1>6. (out.samples + f) % WordSize \in 0..(WordSize - 1)
  BY <1>2, <1>3, ConstantTypes DEF OutData
<1>7. PICK n \in 0..(WordSize - 1) : n = ((out.samples + f) % WordSize)
  BY <1>6
<1>8. PICK e \in BOOLEAN : e = (out.wf_error \/ ~ok)
  OBVIOUS
<1>9. out' = [out EXCEPT !.samples = n, !.wf_error = e]
  BY <1>1, <1>7, <1>8, <1>3
<1>10. /\ out' \in OutData /\ out'.ad = out.ad /\ out'.ad_open = out.ad_open
       /\ out'.wf = out.wf /\ out'.dev = out.dev /\ out'.buf = out.buf
       /\ out'.ch_len = out.ch_len /\ out'.samples = n
  BY <1>3, <1>9 DEF OutData
<1>11. QED
  BY <1>2, <1>4, <1>5, <1>7, <1>10

ToDevice == out.ad # None /\ ~Split
ToFile   == out.wf = "open"

\* A turn of the loop of both, or of the one there is; d samples are taken by
\* the device and f by the file.
RunTurn(d, f, bad) ==
  /\ out.buf /\ out.wf # "closed"
  /\ d \in Nat /\ f \in Nat /\ bad \subseteq {"device", "file"}
  /\ ToDevice => Took(device, device', d)
  /\ ~ToDevice => device' = device
  /\ ToFile => Took(file.data, file'.data, f)
  /\ ~ToFile => file' = file /\ out' = out
  /\ bad = {} => d = RunLen /\ f = RunLen
  /\ failed' = failed \cup bad /\ error' = (error \/ bad # {})
  /\ gen' = gen - RunLen /\ gen' \in Nat
  /\ file' \in FileData /\ file'.header = file.header
  /\ ToFile => out'.samples = ((out.samples + f) % WordSize)
  /\ out' \in OutData /\ out'.ad = out.ad /\ out'.ad_open = out.ad_open
  /\ out'.wf = out.wf /\ out'.dev = out.dev /\ out'.buf = out.buf
  /\ out'.ch_len = out.ch_len
  /\ UNCHANGED <<phase, flags, srate, progs, at, status, exit, given>>

LEMMA RunOutputIs ==
  ASSUME Types, RunOutput, out.buf, out.wf # "closed"
  PROVE  \E d, f, bad : RunTurn(d, f, bad)
<1>1. PICK dev_ok \in BOOLEAN, file_ok \in BOOLEAN :
        /\ dev_ok \/ ToDevice
        /\ file_ok \/ ToFile
        /\ ToDevice => device_write(dev_ok)
        /\ ~ToDevice => device' = device
        /\ ToFile => file_write(file_ok)
        /\ ~ToFile => file' = file /\ out' = out
        /\ Wrote(dev_ok, file_ok)
        /\ UNCHANGED <<phase, flags, srate, progs, at, status, exit, given>>
  BY DEF RunOutput, ToDevice, ToFile
<1>2. RunLen \in Nat /\ RunLen > 0 /\ gen - RunLen \in Nat
  BY RunLenIs DEF Types, RunOutput
<1>3. PICK d \in Nat :
        /\ dev_ok => d = RunLen
        /\ ToDevice => Took(device, device', d)
        /\ ~ToDevice => device' = device
  <2>1. CASE ToDevice
    <3>1. PICK d \in Taken(RunLen, dev_ok) : device' = AddTo(device, d)
      BY <1>1, <2>1 DEF device_write
    <3>2. d \in 0..RunLen /\ (dev_ok => d = RunLen)
      <4> HIDE DEF RunLen
      <4>1. QED
        BY <1>2, <3>1, TakenIs
    <3>3. d \in Nat /\ Took(device, device', d)
      BY <1>2, <3>1, <3>2 DEF AddTo, Took
    <3>4. QED
      BY <2>1, <3>2, <3>3
  <2>2. CASE ~ToDevice
    BY <1>1, <1>2, <2>2
  <2>3. QED
    BY <2>1, <2>2
<1>4. /\ out' \in OutData /\ file' \in FileData /\ file'.header = file.header
      /\ out'.ad = out.ad /\ out'.ad_open = out.ad_open
      /\ out'.wf = out.wf /\ out'.dev = out.dev /\ out'.buf = out.buf
      /\ out'.ch_len = out.ch_len
      /\ \E f \in Nat : /\ file_ok => f = RunLen
                        /\ ToFile => Took(file.data, file'.data, f)
                        /\ ToFile => out'.samples = ((out.samples + f) % WordSize)
  <2>1. CASE ToFile
    BY <1>1, <1>2, <2>1, FileWriteIs
  <2>2. CASE ~ToFile
    BY <1>1, <1>2, <2>2 DEF Types
  <2>3. QED
    BY <2>1, <2>2
<1>5. PICK f \in Nat : /\ file_ok => f = RunLen
                       /\ ToFile => Took(file.data, file'.data, f)
                       /\ ToFile => out'.samples = ((out.samples + f) % WordSize)
  BY <1>4
<1>6. PICK bad \in SUBSET {"device", "file"} :
        /\ failed' = failed \cup bad /\ error' = (error \/ bad # {})
        /\ bad = {} <=> dev_ok /\ file_ok
  BY <1>1, WroteIs DEF Types
<1>7. gen' = gen - RunLen
  BY <1>1 DEF Wrote
<1>8. RunTurn(d, f, bad)
  BY <1>1, <1>2, <1>3, <1>4, <1>5, <1>6, <1>7 DEF RunTurn
<1>9. QED
  BY <1>8

-----------------------------------------------------------------------------
(***************************************************************************)
(* Types are kept.                                                         *)
(***************************************************************************)

LEMMA ProgramTypes ==
  ASSUME Types, NEW k \in 1..Len(progs)
  PROVE  /\ Len(progs) \in Nat /\ DOMAIN progs = 1..Len(progs) /\ k \in 1..MaxScripts
         /\ progs[k] # None => progs[k] \in Nat
<1>1. progs \in Seq(Nat \cup {None}) /\ Len(progs) <= MaxScripts /\ MaxScripts \in Nat
  BY ConstantTypes DEF Types
<1>2. progs[k] \in Nat \cup {None}
  BY <1>1, ElementIsIn
<1>3. QED
  BY <1>1, <1>2

LEMMA InitTypes ==
  ASSUME PlayerInit
  PROVE  Types
<1>1. out \in OutData
  <2>1. PICK on \in Platforms : out =
             [ad |-> None, ad_open |-> FALSE, wf |-> "none", wf_error |-> FALSE,
              samples |-> 0, ch_len |-> 0, buf |-> FALSE,
              dev |-> [on |-> on, type |-> "none", handles |-> {}]]
    BY DEF PlayerInit
  <2>2. 0 \in 0..(WordSize - 1)
    BY ConstantTypes
  <2>3. QED
    BY <2>1, <2>2 DEF OutData
<1>2. device \in Written /\ file \in FileData
  BY DEF PlayerInit, Written, FileData
<1>3. exit = None /\ phase = "args"
  BY DEF PlayerInit
<1>4. progs = <<>> /\ given = <<>> /\ at = 1 /\ Len(progs) = 0
  BY DEF PlayerInit
<1>5. progs \in Seq(Nat \cup {None}) /\ Len(progs) <= MaxScripts /\ at \in 1..(Len(progs) + 1)
      /\ given \in Seq(Options)
  BY <1>4, ConstantTypes
<1>6. flags = {} /\ failed = {} /\ gen = 0 /\ error = FALSE /\ status = TRUE /\ srate \in Nat \ {0}
  BY ConstantTypes DEF PlayerInit
<1>7. QED
  BY <1>1, <1>2, <1>3, <1>5, <1>6 DEF Types, Phases, SettingUp

\* The part of the types that setting up can change.
LEMMA SetUpTypes ==
  ASSUME Types, RestKept, phase' \in Phases \ {"device", "run", "done"}, out' \in OutData,
         file' \in FileData, failed' \subseteq {"init", "generator", "device", "file"},
         exit' \in {0, 1, None}, exit' # None <=> phase' = "exited"
  PROVE  Types'
<1>1. UNCHANGED <<flags, srate, progs, at, gen, error, status, given, device>>
  BY DEF RestKept
<1>2. phase' \in Phases /\ phase' \notin {"device", "run", "done"}
  OBVIOUS
<1>3. QED
  BY <1>1, <1>2 DEF Types

LEMMA InitFailsTypes ==
  ASSUME Types, phase # "exited", NEW o \in OutData, InitFails(o), RestKept
  PROVE  Types'
<1>1. out' \in OutData /\ file' \in FileData
  BY InitFailsIs, FiniIs DEF Types
<1>2. exit = None /\ failed \subseteq {"init", "generator", "device", "file"}
  BY DEF Types
<1>3. failed' \subseteq {"init", "generator", "device", "file"}
  BY <1>2, InitFailsIs
<1>4. phase' \in {"play", "exited"} /\ exit' \in {0, 1, None} /\ (exit' # None <=> phase' = "exited")
  BY <1>2, InitFailsIs, ConstantTypes
<1>5. phase' \in Phases \ {"device", "run", "done"}
  BY <1>4 DEF Phases, SettingUp, Playing
<1>6. QED
  BY <1>1, <1>3, <1>4, <1>5, SetUpTypes

LEMMA GoesOnTypes ==
  ASSUME Types, phase # "exited", NEW o \in OutData, RestKept,
         NEW next \in {"fallback", "create", "alloc", "play"}, InitGoesOn(o, next)
  PROVE  Types'
BY SetUpTypes DEF Types, RestKept, InitGoesOn, Phases, SettingUp, Playing

LEMMA OpenedTypes ==
  ASSUME Types, phase # "exited", NEW type \in Devices,
         NEW handles \in SUBSET (Devices \cup {"hw_params"}), Opened(type, handles), RestKept
  PROVE  Types'
<1>1. /\ out' \in OutData /\ phase' = "create" /\ UNCHANGED <<exit, file, failed>>
  BY OpenedIs DEF Types
<1>2. QED
  BY <1>1, SetUpTypes DEF Types, RestKept, Phases, SettingUp, Playing

LEMMA TypesKept ==
  ASSUME Types, [PlayerNext]_playerVars
  PROVE  Types'
<1>1. ASSUME NEW c \in Options, parse_option(c)
      PROVE  Types'
  <2>1. Sets(c) \subseteq {"full", "enable", "disable", "check", "wav"}
    BY PlayerAssumption DEF Sets
  <2>2. flags' \subseteq {"full", "enable", "disable", "check", "wav"} /\ srate' \in Nat \ {0}
    BY <1>1, <2>1, ConstantTypes DEF parse_option, Types
  <2>3. given' \in Seq(Options)
    BY <1>1 DEF parse_option, Types
  <2>4. phase' \in {"args", "exited"} /\ exit' \in {0, 1, None} /\ (exit' # None <=> phase' = "exited")
    BY <1>1, ConstantTypes DEF parse_option, Types, Exit
  <2>5. QED
    BY <1>1, <2>2, <2>3, <2>4 DEF parse_option, Types, local_, Phases, SettingUp
<1>2. CASE ScriptArgs
  BY <1>2 DEF ScriptArgs, Types, local_, history, Phases, SettingUp
<1>3. CASE BuildScript
  <2>1. PICK prg \in Lengths \cup {None} : progs' = Append(progs, prg)
    BY <1>3 DEF BuildScript
  <2>2. progs \in Seq(Nat \cup {None}) /\ prg \in Nat \cup {None}
    BY <2>1, ConstantTypes DEF Types
  <2>3. progs' \in Seq(Nat \cup {None}) /\ Len(progs') = Len(progs) + 1 /\ Len(progs) \in Nat
    BY <2>1, <2>2
  <2>4. Len(progs') <= MaxScripts /\ at' \in 1..(Len(progs') + 1)
    BY <1>3, <2>3, ConstantTypes DEF BuildScript, Types
  <2>5. phase = "build" /\ UNCHANGED <<phase, flags, srate, at, local_, exit, history>>
    BY <1>3 DEF BuildScript
  <2>6. QED
    BY <2>3, <2>4, <2>5 DEF Types, local_, history
<1>4. CASE Built
  <2>1. phase' \in {"exited", "play", "open"} /\ exit' \in {1, None}
        /\ (exit' # None <=> phase' = "exited")
    BY <1>4, ConstantTypes DEF Built, Types, Exit
  <2>2. QED
    BY <1>4, <2>1 DEF Built, Types, local_, history, Phases, SettingUp, Playing
<1>5. CASE NoAudioDev
  BY <1>5, GoesOnTypes DEF NoAudioDev, Types
<1>6. CASE open_linux
  <2>1. {"alsa", "hw_params"} \in SUBSET (Devices \cup {"hw_params"}) /\ "alsa" \in Devices
    BY DEF Devices
  <2>2. CASE Opened("alsa", {"alsa", "hw_params"})
    BY <1>6, <2>1, <2>2, OpenedTypes DEF open_linux
  <2>3. CASE InitGoesOn(out, "fallback")
    BY <1>6, <2>3, GoesOnTypes DEF open_linux, Types
  <2>4. CASE InitFails(out)
    BY <1>6, <2>4, InitFailsTypes DEF open_linux, Types
  <2>5. QED
    BY <1>6, <2>2, <2>3, <2>4 DEF open_linux
<1>7. CASE open_oss
  <2>1. {"oss"} \in SUBSET (Devices \cup {"hw_params"}) /\ "oss" \in Devices
    BY DEF Devices
  <2>2. CASE Opened("oss", {"oss"})
    BY <1>7, <2>1, <2>2, OpenedTypes DEF open_oss
  <2>3. CASE InitFails(out)
    BY <1>7, <2>3, InitFailsTypes DEF open_oss, Types
  <2>4. QED
    BY <1>7, <2>2, <2>3 DEF open_oss
<1>8. CASE open_sndio
  <2>1. {"sndio"} \in SUBSET (Devices \cup {"hw_params"}) /\ "sndio" \in Devices
    BY DEF Devices
  <2>2. CASE Opened("sndio", {"sndio"})
    BY <1>8, <2>1, <2>2, OpenedTypes DEF open_sndio
  <2>3. ASSUME NEW left \in {{}, {"sndio"}}, InitFails([out EXCEPT !.dev.handles = left])
        PROVE  Types'
    <3>1. [out EXCEPT !.dev.handles = left] \in OutData
      BY DEF Types, OutData, Devices
    <3>2. QED
      BY <1>8, <2>3, <3>1, InitFailsTypes DEF open_sndio
  <2>4. QED
    BY <1>8, <2>2, <2>3 DEF open_sndio
<1>9. CASE CreateWAVFile
  <2>1. [out EXCEPT !.wf = "open"] \in OutData
    BY DEF Types, OutData
  <2>2. CASE "wav" \in flags
    BY <1>9, <2>1, <2>2, GoesOnTypes, InitFailsTypes DEF CreateWAVFile, Types
  <2>3. CASE "wav" \notin flags
    BY <1>9, <2>3, GoesOnTypes DEF CreateWAVFile, Types
  <2>4. QED
    BY <2>2, <2>3
<1>10. CASE AllocBuffer
  <2>1. PICK o \in OutData, b \in OutData : InitGoesOn(b, "play") \/ InitFails(o)
    BY <1>10, AllocIs DEF AllocBuffer, Types
  <2>2. QED
    BY <1>10, <2>1, GoesOnTypes, InitFailsTypes DEF AllocBuffer, Types
<1>11. CASE SkipNull
  BY <1>11 DEF SkipNull, Types, local_, history
<1>12. CASE BeginOutput
  <2>1. at \in 1..Len(progs) /\ phase = "play" /\ at + 1 \in 1..(Len(progs) + 1)
    <3>1. Len(progs) \in Nat
      BY DEF Types
    <3>2. QED
      BY <1>12, <3>1 DEF BeginOutput, Types
  <2>2. CASE out.ad # None /\ ~out.ad_open
    <3>1. Undefined
      BY <1>12, <2>2 DEF BeginOutput
    <3>2. QED
      BY <2>1, <3>1 DEF Undefined, Types, Phases, local_, history
  <2>3. CASE ~(out.ad # None /\ ~out.ad_open)
    <3>1. CASE OutputFails /\ UNCHANGED <<gen, error>>
      BY <1>12, <2>1, <2>3, <3>1 DEF BeginOutput, OutputFails, Types, Phases, Playing
    <3>2. CASE ~(OutputFails /\ UNCHANGED <<gen, error>>)
      <4>1. PICK rate : rate = IF out.ad # None THEN out.ad ELSE srate
        OBVIOUS
      <4>2. gen' = progs[at] * rate /\ error' = FALSE /\ phase' \in {"done", "device", "run"}
            /\ UNCHANGED <<at, status, failed>>
        BY <1>12, <2>3, <3>2, <4>1 DEF BeginOutput
      <4>3. rate \in Nat /\ progs[at] \in Nat
        BY <1>12, <2>1, <4>1, ProgramTypes DEF BeginOutput, Types, OutData
      <4>4. gen' \in Nat
        BY <4>2, <4>3
      <4>5. progs[at] # None /\ UNCHANGED <<flags, srate, progs, out, exit, given, device, file>>
        BY <1>12, <2>3 DEF BeginOutput
      <4>6. phase' \in Phases /\ phase' # "exited" /\ error' \in BOOLEAN
        BY <4>2 DEF Phases, Playing
      <4>7. UNCHANGED <<at, status, failed>>
        BY <4>2
      <4>8. QED
        BY <2>1, <4>4, <4>5, <4>6, <4>7 DEF Types
    <3>3. QED
      BY <3>1, <3>2
  <2>4. QED
    BY <2>2, <2>3
<1>13. CASE RunForDevice
  <2>1. PICK d \in Nat, bad \in SUBSET {"device", "file"} :
            /\ Took(device, device', d) /\ gen' = gen - RunLen /\ gen' \in Nat
            /\ bad = {} => d = RunLen
            /\ failed' = failed \cup bad /\ error' = (error \/ bad # {})
    BY <1>13, RunForDeviceIs
  <2>2. device' \in Written
    BY <2>1, TookType DEF Types
  <2>3. QED
    BY <1>13, <2>1, <2>2 DEF RunForDevice, Types
<1>14. CASE NewGenerator
  <2>1. at \in 1..Len(progs) /\ phase = "device" /\ at + 1 \in 1..(Len(progs) + 1)
    <3>1. Len(progs) \in Nat
      BY DEF Types
    <3>2. QED
      BY <1>14, <3>1 DEF NewGenerator, Types
  <2>2. CASE OutputFails /\ UNCHANGED gen
    BY <1>14, <2>1, <2>2 DEF NewGenerator, OutputFails, Types, Phases, Playing
  <2>3. CASE ~(OutputFails /\ UNCHANGED gen)
    <3>1. gen' = progs[at] * srate /\ phase' = "run" /\ UNCHANGED <<at, status, failed>>
      BY <1>14, <2>3 DEF NewGenerator
    <3>2. progs[at] \in Nat /\ srate \in Nat
      BY <2>1, ProgramTypes DEF Types
    <3>3. gen' \in Nat
      BY <3>1, <3>2
    <3>4. QED
      BY <1>14, <2>1, <3>1, <3>3 DEF NewGenerator, Types, Phases, Playing
  <2>4. QED
    BY <2>2, <2>3
<1>15. CASE RunOutput
  <2>1. CASE out.buf /\ out.wf # "closed"
    <3>1. PICK d, f, bad : RunTurn(d, f, bad)
      BY <1>15, <2>1, RunOutputIs
    <3>2. device' \in Written
      BY <3>1, TookType DEF RunTurn, Types
    <3>3. QED
      BY <3>1, <3>2 DEF RunTurn, Types
  <2>2. CASE ~(out.buf /\ out.wf # "closed")
    <3>1. Undefined /\ phase = "run"
      BY <1>15, <2>2 DEF RunOutput
    <3>2. QED
      BY <3>1 DEF Undefined, Types, Phases, local_, history
  <2>3. QED
    BY <2>1, <2>2
<1>16. CASE EndOutput
  <2>1. at \in 1..Len(progs) /\ phase # "exited" /\ at + 1 \in 1..(Len(progs) + 1)
    <3>1. Len(progs) \in Nat
      BY DEF Types
    <3>2. QED
      BY <1>16, <3>1 DEF EndOutput, OutputOver, Types
  <2>2. status' \in BOOLEAN /\ at' = at + 1 /\ phase' = "play"
        /\ UNCHANGED <<flags, srate, progs, out, gen, error, exit, history>>
    BY <1>16 DEF EndOutput
  <2>3. QED
    BY <2>1, <2>2 DEF Types, history, Phases, Playing
<1>17. CASE EndPlay
  <2>1. CASE out.wf = "closed" \/ (out.ad # None /\ ~out.ad_open)
    BY <1>17, <2>1 DEF EndPlay, Undefined, Types, Phases, local_, history
  <2>2. CASE ~(out.wf = "closed" \/ (out.ad # None /\ ~out.ad_open))
    <3>1. fini_Output(out)
      BY <1>17, <2>2 DEF EndPlay
    <3>2. out' \in OutData /\ file' \in FileData
      BY <3>1, FiniIs DEF Types
    <3>3. phase' = "exited" /\ exit' \in {0, 1} /\ failed' \subseteq failed \cup {"file"}
      BY <1>17, <2>2 DEF EndPlay, Exit
    <3>4. exit' \in {0, 1, None} /\ exit' # None /\ phase' \in Phases
          /\ failed' \subseteq {"init", "generator", "device", "file"}
      BY <3>3, ConstantTypes DEF Types, Phases
    <3>5. UNCHANGED <<flags, srate, progs, at, gen, error, status, given, device>>
      BY <1>17, <2>2 DEF EndPlay
    <3>6. QED
      BY <3>2, <3>3, <3>4, <3>5 DEF Types
  <2>3. QED
    BY <2>1, <2>2
<1>18. CASE UNCHANGED playerVars
  BY <1>18 DEF playerVars, local_, history, Types
<1>19. QED
  BY <1>1, <1>2, <1>3, <1>4, <1>5, <1>6, <1>7, <1>8, <1>9, <1>10, <1>11, <1>12, <1>13,
     <1>14, <1>15, <1>16, <1>17, <1>18
  DEF PlayerNext

-----------------------------------------------------------------------------
(***************************************************************************)
(* Options, and what is set up.                                            *)
(***************************************************************************)

LEMMA RangeOfAppend ==
  ASSUME NEW S, NEW s \in Seq(S), NEW e \in S
  PROVE  Range(Append(s, e)) = Range(s) \cup {e}
<1> DEFINE t == Append(s, e)
<1>1. /\ Len(s) \in Nat /\ DOMAIN s = 1..Len(s) /\ DOMAIN t = 1..(Len(s) + 1)
      /\ t[Len(s) + 1] = e /\ \A k \in 1..Len(s) : t[k] = s[k]
  OBVIOUS
<1> HIDE DEF t
<1>2. Range(t) = {t[k] : k \in DOMAIN t} /\ Range(s) = {s[k] : k \in DOMAIN s}
  BY DEF Range
<1>3. \A k \in 1..(Len(s) + 1) : k \in 1..Len(s) \/ k = Len(s) + 1
  BY <1>1
<1>4. \A k \in 1..Len(s) : k \in 1..(Len(s) + 1)
  BY <1>1
<1>5. Len(s) + 1 \in 1..(Len(s) + 1)
  BY <1>1
<1>6. Range(t) = Range(s) \cup {e}
  BY <1>1, <1>2, <1>3, <1>4, <1>5
<1>7. QED
  BY <1>6 DEF t

\* Only options change the flags.
LEMMA FlagsKept ==
  ASSUME PlayerNext, ~ \E c \in Options : parse_option(c)
  PROVE  UNCHANGED <<flags, given>> /\ phase # "exited"
<1>1. CASE ScriptArgs \/ BuildScript \/ Built
  BY <1>1 DEF ScriptArgs, BuildScript, Built, history
<1>2. CASE NoAudioDev \/ open_linux \/ open_oss \/ open_sndio \/ CreateWAVFile \/ AllocBuffer
  BY <1>2 DEF NoAudioDev, open_linux, open_oss, open_sndio, CreateWAVFile, AllocBuffer, RestKept
<1>3. CASE SkipNull \/ RunForDevice \/ NewGenerator \/ EndOutput
  BY <1>3 DEF SkipNull, RunForDevice, NewGenerator, EndOutput, OutputOver, history
<1>4. CASE BeginOutput \/ EndPlay
  BY <1>4 DEF BeginOutput, EndPlay, Undefined, history
<1>5. CASE RunOutput
  BY <1>5 DEF RunOutput, Undefined, history
<1>6. QED
  BY <1>1, <1>2, <1>3, <1>4, <1>5 DEF PlayerNext

LEMMA FlagsTellKept ==
  ASSUME Types, FlagsTell, [PlayerNext]_playerVars
  PROVE  FlagsTell'
<1>1. ASSUME NEW c \in Options, parse_option(c), phase' # "exited"
      PROVE  FlagsTell'
  <2>1. /\ phase # "exited" /\ Excludes(c) \cap flags = {} /\ flags' = flags \cup Sets(c)
        /\ given' = Append(given, c)
    BY <1>1 DEF parse_option, Exit
  <2>2. Range(given') = Range(given) \cup {c}
    BY <2>1, RangeOfAppend DEF Types
  <2>3. PICK asked, fl, fl2 :
          /\ asked = Range(given) /\ fl = flags /\ fl2 = flags'
          /\ Range(given') = asked \cup {c}
    BY <2>2
  <2>4. /\ "enable" \in fl <=> "a" \in asked
        /\ "disable" \in fl <=> "m" \in asked
        /\ "check" \in fl <=> "c" \in asked
        /\ "wav" \in fl <=> "o" \in asked
        /\ "full" \in fl <=> "a" \in asked \/ "m" \in asked \/ "o" \in asked \/ "r" \in asked
        /\ ~("enable" \in fl /\ "disable" \in fl)
        /\ ~("check" \in fl /\ "full" \in fl)
    BY <2>1, <2>3 DEF FlagsTell
  <2>5. Excludes(c) \cap fl = {} /\ fl2 = fl \cup Sets(c)
    BY <2>1, <2>3
  <2> DEFINE Told == /\ "enable" \in fl2 <=> "a" \in asked \/ c = "a"
                     /\ "disable" \in fl2 <=> "m" \in asked \/ c = "m"
                     /\ "check" \in fl2 <=> "c" \in asked \/ c = "c"
                     /\ "wav" \in fl2 <=> "o" \in asked \/ c = "o"
                     /\ "full" \in fl2 <=> \/ "a" \in asked \/ "m" \in asked \/ "o" \in asked
                                           \/ "r" \in asked \/ c \in {"a", "m", "o", "r"}
                     /\ ~("enable" \in fl2 /\ "disable" \in fl2)
                     /\ ~("check" \in fl2 /\ "full" \in fl2)
  <2>6. ASSUME c = "a" PROVE Told
    <3>1. "disable" \notin fl /\ "check" \notin fl /\ fl2 = fl \cup {"full", "enable"}
      BY <2>5, <2>6 DEF Excludes, Sets
    <3>2. QED
      BY <2>4, <2>6, <3>1
  <2>7. ASSUME c = "m" PROVE Told
    <3>1. "enable" \notin fl /\ "check" \notin fl /\ fl2 = fl \cup {"full", "disable"}
      BY <2>5, <2>7 DEF Excludes, Sets
    <3>2. QED
      BY <2>4, <2>7, <3>1
  <2>8. ASSUME c = "c" PROVE Told
    <3>1. "full" \notin fl /\ fl2 = fl \cup {"check"}
      BY <2>5, <2>8 DEF Excludes, Sets
    <3>2. QED
      BY <2>4, <2>8, <3>1
  <2>9. ASSUME c = "o" PROVE Told
    <3>1. "check" \notin fl /\ fl2 = fl \cup {"full", "wav"}
      BY <2>5, <2>9 DEF Excludes, Sets
    <3>2. QED
      BY <2>4, <2>9, <3>1
  <2>10. ASSUME c = "r" PROVE Told
    <3>1. "check" \notin fl /\ fl2 = fl \cup {"full"}
      BY <2>5, <2>10 DEF Excludes, Sets
    <3>2. QED
      BY <2>4, <2>10, <3>1
  <2>11. Told
    BY <2>6, <2>7, <2>8, <2>9, <2>10, PlayerAssumption
  <2>12. QED
    BY <2>3, <2>11 DEF FlagsTell
<1>2. CASE PlayerNext /\ ~ \E c \in Options : parse_option(c)
  BY <1>2, FlagsKept DEF FlagsTell
<1>3. CASE UNCHANGED playerVars
  BY <1>3 DEF playerVars, history, FlagsTell
<1>4. CASE phase' = "exited"
  BY <1>4 DEF FlagsTell
<1>5. QED
  BY <1>1, <1>2, <1>3, <1>4

\* The output is set up as far as main() has come with it.
LEMMA SetUpInits ==
  ASSUME PlayerInit
  PROVE  SetUp
<1>1. phase = "args" /\ at = 1 /\ failed = {} /\ status = TRUE /\ progs = <<>>
  BY DEF PlayerInit
<1>2. Fresh(out) /\ out.dev.handles = {}
  BY DEF PlayerInit, Fresh
<1>3. QED
  BY <1>1, <1>2 DEF SetUp, SettingUp, Playing

\* Setting up that goes wrong.
LEMMA InitFailsSetUp ==
  ASSUME Types, NEW o \in OutData, o.ad_open \/ ~o.ad_open, InitFails(o), RestKept,
         "check" \notin flags
  PROVE  SetUp'
<1>1. /\ failed' = failed \cup {"init"} /\ phase' \in {"play", "exited"}
      /\ "check" \notin flags' /\ out'.wf # "open"
  BY InitFailsIs, FiniIs DEF RestKept, Types
<1>2. QED
  BY <1>1 DEF SetUp, SettingUp, Playing

\* A device that is opened.
LEMMA OpenedSetUp ==
  ASSUME Types, SetUp, NEW type \in Devices, phase \in {"open", "fallback"}, UseAudiodev,
         NEW handles \in SUBSET (Devices \cup {"hw_params"}), Opened(type, handles), RestKept
  PROVE  SetUp'
<1>1. /\ out'.ad # None /\ out'.ad_open /\ out'.wf = out.wf /\ out'.buf = out.buf
      /\ phase' = "create" /\ failed' = failed
  BY OpenedIs DEF Types
<1>2. at' = 1 /\ failed' = {} /\ status' = TRUE /\ "check" \notin flags' /\ UseAudiodev'
  BY <1>1 DEF SetUp, SettingUp, RestKept, UseAudiodev
<1>3. out'.wf = "none" /\ ~out'.buf
  BY <1>1 DEF SetUp, Fresh
<1>4. DeviceReady(out', UseAudiodev')
  BY <1>1, <1>2 DEF DeviceReady
<1>5. QED
  BY <1>1, <1>2, <1>3, <1>4 DEF SetUp, SettingUp, Playing

\* Playing leaves open what is open.
LEMMA PlayingGoesOn ==
  ASSUME Types, SetUp, phase \in Playing, phase' \in Playing, UNCHANGED <<flags, srate>>,
         out'.ad = out.ad, out'.ad_open = out.ad_open, out'.wf = out.wf, out'.buf = out.buf,
         out'.ch_len = out.ch_len, "init" \in failed' <=> "init" \in failed,
         phase' \in {"device", "run"} => "check" \notin flags,
         phase' = "device" => Split, phase' = "done" => "check" \in flags
  PROVE  SetUp'
<1>1. UseAudiodev' = UseAudiodev /\ Split' = Split
  BY DEF UseAudiodev, Split
<1>2. "check" \in flags' => Fresh(out') /\ "init" \notin failed'
  BY DEF SetUp, Fresh
<1>3. "check" \notin flags' /\ "init" \notin failed' =>
       /\ DeviceReady(out', UseAudiodev') /\ FileReady(out', "wav" \in flags')
       /\ out'.buf /\ out'.ch_len > 0
  BY <1>1 DEF SetUp, DeviceReady, FileReady
<1>4. "init" \in failed' => out'.wf # "open"
  BY DEF SetUp
<1>5. phase' \notin SettingUp /\ phase' # "undefined"
      /\ phase' \notin {"args", "build", "open", "fallback", "create", "alloc"}
  BY DEF Playing, SettingUp
<1>6. QED
  BY <1>1, <1>2, <1>3, <1>4, <1>5 DEF SetUp

LEMMA SetUpKept ==
  ASSUME Types, FlagsTell, SetUp, [PlayerNext]_playerVars
  PROVE  SetUp'
<1>1. ASSUME NEW c \in Options, parse_option(c)
      PROVE  SetUp'
  <2>1. phase = "args" /\ phase' \in {"args", "exited"}
        /\ UNCHANGED <<progs, at, out, status, failed>>
    BY <1>1 DEF parse_option, Exit, local_
  <2>2. QED
    BY <2>1 DEF SetUp, SettingUp, Playing
<1>2. CASE ScriptArgs
  BY <1>2 DEF ScriptArgs, SetUp, SettingUp, Playing, local_, history
<1>3. CASE BuildScript
  BY <1>3 DEF BuildScript, SetUp, SettingUp, Playing, local_, history
<1>4. CASE Built
  <2>1. phase = "build" /\ UNCHANGED <<flags, srate, progs, at, out, status, failed>>
        /\ \/ phase' = "exited"
           \/ phase' = "play" /\ "check" \in flags
           \/ phase' = "open" /\ "check" \notin flags
    BY <1>4 DEF Built, Exit, local_, history
  <2>2. Fresh(out) /\ out.dev.handles = {} /\ failed = {} /\ at = 1 /\ status = TRUE
    BY <2>1 DEF SetUp, SettingUp
  <2>3. QED
    BY <2>1, <2>2 DEF SetUp, SettingUp, Playing, Fresh
<1>5. CASE NoAudioDev
  <2>1. /\ phase = "open" /\ phase' = "create" /\ ~UseAudiodev
        /\ UNCHANGED <<flags, srate, progs, at, out, status, failed>>
    BY <1>5 DEF NoAudioDev, InitGoesOn, RestKept
  <2>2. /\ Fresh(out) /\ failed = {} /\ at = 1 /\ status = TRUE /\ "check" \notin flags
    BY <2>1 DEF SetUp, SettingUp
  <2>3. DeviceReady(out, UseAudiodev) /\ out.wf = "none" /\ ~out.buf /\ UseAudiodev' = UseAudiodev
    BY <2>1, <2>2 DEF Fresh, DeviceReady, UseAudiodev
  <2>4. DeviceReady(out', UseAudiodev')
    BY <2>1, <2>3 DEF DeviceReady
  <2>5. QED
    BY <2>1, <2>2, <2>3, <2>4 DEF SetUp, SettingUp, Playing
<1>6. CASE open_linux
  <2>1. {"alsa", "hw_params"} \in SUBSET (Devices \cup {"hw_params"}) /\ "alsa" \in Devices
    BY DEF Devices
  <2>2. phase = "open" /\ UseAudiodev /\ RestKept /\ "check" \notin flags /\ out \in OutData
    BY <1>6 DEF open_linux, SetUp, Types
  <2>3. CASE Opened("alsa", {"alsa", "hw_params"})
    BY <2>1, <2>2, <2>3, OpenedSetUp
  <2>4. CASE InitGoesOn(out, "fallback")
    <3>1. phase' = "fallback" /\ UNCHANGED <<flags, srate, progs, at, out, status, failed>>
      BY <2>2, <2>4 DEF InitGoesOn, RestKept
    <3>2. UseAudiodev' /\ Fresh(out) /\ out.dev.handles = {} /\ failed = {} /\ at = 1 /\ status = TRUE
      BY <2>2, <3>1 DEF UseAudiodev, SetUp, SettingUp
    <3>3. QED
      BY <2>2, <3>1, <3>2 DEF SetUp, SettingUp, Playing, Fresh
  <2>5. CASE InitFails(out)
    BY <2>2, <2>5, InitFailsSetUp
  <2>6. QED
    BY <1>6, <2>3, <2>4, <2>5 DEF open_linux
<1>7. CASE open_oss
  <2>1. {"oss"} \in SUBSET (Devices \cup {"hw_params"}) /\ "oss" \in Devices
    BY DEF Devices
  <2>2. phase \in {"open", "fallback"} /\ UseAudiodev /\ RestKept /\ "check" \notin flags
        /\ out \in OutData
    BY <1>7 DEF open_oss, SetUp, Types
  <2>3. QED
    BY <1>7, <2>1, <2>2, OpenedSetUp, InitFailsSetUp DEF open_oss
<1>8. CASE open_sndio
  <2>1. {"sndio"} \in SUBSET (Devices \cup {"hw_params"}) /\ "sndio" \in Devices
    BY DEF Devices
  <2>2. phase = "open" /\ UseAudiodev /\ RestKept /\ "check" \notin flags /\ out \in OutData
    BY <1>8 DEF open_sndio, SetUp, Types
  <2>3. CASE Opened("sndio", {"sndio"})
    BY <2>1, <2>2, <2>3, OpenedSetUp
  <2>4. ASSUME NEW left \in {{}, {"sndio"}}, InitFails([out EXCEPT !.dev.handles = left])
        PROVE  SetUp'
    <3>1. [out EXCEPT !.dev.handles = left] \in OutData
      BY DEF Types, OutData, Devices
    <3>2. QED
      BY <2>2, <2>4, <3>1, InitFailsSetUp
  <2>5. QED
    BY <1>8, <2>3, <2>4 DEF open_sndio
<1>9. CASE CreateWAVFile
  <2>1. /\ phase = "create" /\ RestKept /\ "check" \notin flags /\ out \in OutData
        /\ failed = {} /\ at = 1 /\ status = TRUE /\ ~out.buf /\ out.wf = "none"
        /\ DeviceReady(out, UseAudiodev)
    BY <1>9 DEF CreateWAVFile, SetUp, SettingUp, Types
  <2>2. CASE InitFails(out)
    BY <2>1, <2>2, InitFailsSetUp
  <2>3. CASE ~InitFails(out)
    <3>1. PICK wf : wf = IF "wav" \in flags THEN "open" ELSE "none"
      OBVIOUS
    <3>2. /\ phase' = "alloc" /\ failed' = failed
          /\ out'.wf = wf /\ out'.ad = out.ad /\ out'.ad_open = out.ad_open /\ out'.buf = out.buf
      BY <1>9, <2>1, <2>3, <3>1 DEF CreateWAVFile, InitGoesOn, OutData
    <3>3. UNCHANGED <<flags, srate, progs, at, status>> /\ UseAudiodev' = UseAudiodev
      BY <2>1 DEF RestKept, UseAudiodev
    <3>4. DeviceReady(out', UseAudiodev') /\ FileReady(out', "wav" \in flags')
      BY <2>1, <3>1, <3>2, <3>3 DEF DeviceReady, FileReady
    <3>5. QED
      BY <2>1, <3>2, <3>3, <3>4 DEF SetUp, SettingUp, Playing
  <2>4. QED
    BY <2>2, <2>3
<1>10. CASE AllocBuffer
  <2>1. /\ phase = "alloc" /\ RestKept /\ "check" \notin flags /\ out \in OutData
        /\ failed = {} /\ DeviceReady(out, UseAudiodev) /\ FileReady(out, "wav" \in flags)
    BY <1>10 DEF AllocBuffer, SetUp, SettingUp, Types
  <2>2. PICK o \in OutData, b \in OutData :
          /\ InitGoesOn(b, "play") \/ InitFails(o)
          /\ b.ad = out.ad /\ b.ad_open = out.ad_open /\ b.wf = out.wf /\ b.ch_len > 0 /\ b.buf
    BY <1>10, AllocIs DEF AllocBuffer, Types
  <2>3. CASE InitFails(o)
    BY <2>1, <2>3, InitFailsSetUp
  <2>4. CASE InitGoesOn(b, "play")
    <3>1. phase' = "play" /\ out' = b /\ failed' = {} /\ flags' = flags /\ UseAudiodev' = UseAudiodev
      BY <2>1, <2>4 DEF InitGoesOn, RestKept, UseAudiodev
    <3>2. DeviceReady(out', UseAudiodev') /\ FileReady(out', "wav" \in flags')
      BY <2>1, <2>2, <3>1 DEF DeviceReady, FileReady
    <3>3. QED
      BY <2>1, <2>2, <3>1, <3>2 DEF SetUp, SettingUp, Playing
  <2>5. QED
    BY <2>2, <2>3, <2>4
<1>11. CASE SkipNull
  <2>1. phase = "play" /\ UNCHANGED <<phase, flags, srate, out, failed>>
    BY <1>11 DEF SkipNull, local_, history
  <2>2. QED
    BY <2>1 DEF SetUp, SettingUp, Playing, UseAudiodev

<1>12. CASE BeginOutput
  <2>1. phase = "play" /\ phase \in Playing /\ UNCHANGED <<flags, srate, progs, out>>
    BY <1>12 DEF BeginOutput, Undefined, local_, Playing
  <2>2. CASE out.ad # None /\ ~out.ad_open
    <3>1. phase' = "undefined" /\ failed' = failed
      BY <1>12, <2>2 DEF BeginOutput, Undefined, history
    <3>2. "init" \in failed
      BY <2>1, <2>2 DEF SetUp, Playing, Fresh, DeviceReady
    <3>3. QED
      BY <3>1, <3>2 DEF SetUp, SettingUp, Playing
  <2>3. CASE ~(out.ad # None /\ ~out.ad_open)
    <3>1. CASE OutputFails
      BY <2>1, <3>1, PlayingGoesOn DEF OutputFails, Playing
    <3>2. CASE ~OutputFails
      <4>1. failed' = failed
        BY <1>12, <2>3, <3>2 DEF BeginOutput
      <4>2. phase' = CASE "check" \in flags -> "done" [] Split -> "device" [] OTHER -> "run"
        BY <1>12, <2>3, <3>2 DEF BeginOutput
      <4>3. \/ "check" \in flags /\ phase' = "done"
            \/ "check" \notin flags /\ Split /\ phase' = "device"
            \/ "check" \notin flags /\ ~Split /\ phase' = "run"
        <5>1. CASE "check" \in flags
          BY <2>1, <4>2, <5>1 DEF SetUp, Fresh, Split
        <5>2. CASE "check" \notin flags /\ Split
          BY <4>2, <5>2
        <5>3. CASE "check" \notin flags /\ ~Split
          BY <4>2, <5>3
        <5>4. QED
          BY <5>1, <5>2, <5>3
      <4>4. QED
        BY <2>1, <4>1, <4>3, PlayingGoesOn DEF Playing
    <3>3. QED
      BY <3>1, <3>2
  <2>4. QED
    BY <2>2, <2>3
<1>13. CASE RunForDevice
  <2>1. /\ phase = "device" /\ UNCHANGED <<phase, flags, srate, out>>
        /\ "check" \notin flags /\ Split
    BY <1>13 DEF RunForDevice, SetUp
  <2>2. "init" \in failed' <=> "init" \in failed
    BY <1>13, RunForDeviceIs
  <2>3. QED
    BY <2>1, <2>2, PlayingGoesOn DEF Playing
<1>14. CASE NewGenerator
  <2>1. /\ phase = "device" /\ phase' \in {"play", "run"} /\ UNCHANGED <<flags, srate, out>>
        /\ "check" \notin flags
        /\ "init" \in failed' <=> "init" \in failed
    BY <1>14 DEF NewGenerator, OutputFails, SetUp
  <2>2. QED
    BY <2>1, PlayingGoesOn DEF Playing
<1>15. CASE RunOutput
  <2>1. phase = "run" /\ "check" \notin flags
    BY <1>15 DEF RunOutput, SetUp
  <2>2. CASE out.buf /\ out.wf # "closed"
    <3>1. PICK d, f, bad : RunTurn(d, f, bad)
      BY <1>15, <2>2, RunOutputIs
    <3>2. /\ phase' = "run" /\ UNCHANGED <<flags, srate>>
          /\ "init" \in failed' <=> "init" \in failed
          /\ out'.ad = out.ad /\ out'.ad_open = out.ad_open /\ out'.wf = out.wf
          /\ out'.buf = out.buf /\ out'.ch_len = out.ch_len
      BY <2>1, <3>1 DEF RunTurn
    <3>3. QED
      BY <2>1, <3>2, PlayingGoesOn DEF Playing
  <2>3. CASE ~(out.buf /\ out.wf # "closed")
    <3>1. phase' = "undefined" /\ failed' = failed
      BY <1>15, <2>3 DEF RunOutput, Undefined, history
    <3>2. "init" \in failed
      BY <2>1, <2>3 DEF SetUp, Playing, FileReady
    <3>3. QED
      BY <3>1, <3>2 DEF SetUp, SettingUp, Playing
  <2>4. QED
    BY <2>2, <2>3
<1>16. CASE EndOutput
  <2>1. phase \in {"run", "done"} /\ phase' = "play" /\ UNCHANGED <<flags, srate, out, failed>>
    BY <1>16 DEF EndOutput, OutputOver, history
  <2>2. QED
    BY <2>1, PlayingGoesOn DEF Playing
<1>17. CASE EndPlay
  <2>1. phase = "play"
    BY <1>17 DEF EndPlay
  <2>2. CASE out.wf = "closed" \/ (out.ad # None /\ ~out.ad_open)
    <3>1. phase' = "undefined" /\ failed' = failed
      BY <1>17, <2>2 DEF EndPlay, Undefined, history
    <3>2. "init" \in failed
      BY <2>1, <2>2 DEF SetUp, Playing, Fresh, DeviceReady, FileReady
    <3>3. QED
      BY <3>1, <3>2 DEF SetUp, SettingUp, Playing
  <2>3. CASE ~(out.wf = "closed" \/ (out.ad # None /\ ~out.ad_open))
    <3>1. phase' = "exited"
      BY <1>17, <2>3 DEF EndPlay, Exit
    <3>2. QED
      BY <3>1 DEF SetUp, SettingUp, Playing
  <2>4. QED
    BY <2>2, <2>3
<1>18. CASE UNCHANGED playerVars
  BY <1>18 DEF playerVars, local_, history, SetUp, UseAudiodev, Split
<1>19. QED
  BY <1>1, <1>2, <1>3, <1>4, <1>5, <1>6, <1>7, <1>8, <1>9, <1>10, <1>11, <1>12, <1>13,
     <1>14, <1>15, <1>16, <1>17, <1>18
  DEF PlayerNext

\* The device that is open, and no other.
LEMMA FiniHandles ==
  ASSUME NEW o \in OutData, Handles(o), fini_Output(o), file \in FileData
  PROVE  Handles(out')
<1>1. /\ ~out'.ad_open /\ out'.ad = o.ad /\ out'.dev.on = o.dev.on
      /\ o.ad_open => out'.dev.handles = o.dev.handles \ {o.dev.type}
      /\ ~o.ad_open => out'.dev.handles = o.dev.handles
  BY FiniIs
<1>2. CASE o.ad_open
  BY <1>1, <1>2 DEF Handles
<1>3. CASE ~o.ad_open
  BY <1>1, <1>3 DEF Handles
<1>4. QED
  BY <1>2, <1>3

LEMMA SameHandles ==
  ASSUME NEW o, Handles(o), NEW p, p.ad = o.ad, p.ad_open = o.ad_open, p.dev = o.dev
  PROVE  Handles(p)
BY DEF Handles

LEMMA InitFailsHandles ==
  ASSUME Types, NEW o \in OutData, Handles(o), InitFails(o)
  PROVE  Handles(out')
BY InitFailsIs, FiniHandles DEF Types

LEMMA OpenedHandles ==
  ASSUME Types, NEW type \in Devices, NEW handles \in SUBSET (Devices \cup {"hw_params"}),
         handles \cap Devices = {type}, Opened(type, handles)
  PROVE  Handles(out')
BY OpenedIs DEF Types, Handles

LEMMA HandlesKept ==
  ASSUME Types, SetUp, Handles(out), [PlayerNext]_playerVars
  PROVE  Handles(out')
<1>1. CASE out' = out
  BY <1>1
<1>2. CASE open_linux
  <2>1. /\ {"alsa", "hw_params"} \in SUBSET (Devices \cup {"hw_params"}) /\ "alsa" \in Devices
        /\ {"alsa", "hw_params"} \cap Devices = {"alsa"}
    BY DEF Devices
  <2>2. QED
    BY <1>1, <1>2, <2>1, OpenedHandles, InitFailsHandles DEF open_linux, InitGoesOn, Types
<1>3. CASE open_oss
  <2>1. /\ {"oss"} \in SUBSET (Devices \cup {"hw_params"}) /\ "oss" \in Devices
        /\ {"oss"} \cap Devices = {"oss"}
    BY DEF Devices
  <2>2. QED
    BY <1>3, <2>1, OpenedHandles, InitFailsHandles DEF open_oss, Types
<1>4. CASE open_sndio
  <2>1. /\ {"sndio"} \in SUBSET (Devices \cup {"hw_params"}) /\ "sndio" \in Devices
        /\ {"sndio"} \cap Devices = {"sndio"}
    BY DEF Devices
  <2>2. out.ad = None /\ ~out.ad_open /\ out.dev.on = "openbsd" /\ out \in OutData
    BY <1>4 DEF open_sndio, SetUp, Fresh, Types
  <2>3. ASSUME NEW left \in {{}, {"sndio"}}, InitFails([out EXCEPT !.dev.handles = left])
        PROVE  Handles(out')
    <3>1. PICK o : o = [out EXCEPT !.dev.handles = left]
      OBVIOUS
    <3>2. /\ o \in OutData /\ o.ad = None /\ ~o.ad_open /\ o.dev.on = "openbsd"
          /\ o.dev.handles = left
      BY <2>2, <3>1 DEF OutData, Devices
    <3>3. Handles(o)
      BY <3>2 DEF Handles
    <3>4. QED
      BY <2>3, <3>1, <3>2, <3>3, InitFailsHandles
  <2>4. QED
    BY <1>4, <2>1, <2>3, OpenedHandles DEF open_sndio
<1>5. CASE CreateWAVFile
  <2>1. out \in OutData
    BY DEF Types
  <2>2. CASE InitFails(out)
    BY <2>1, <2>2, InitFailsHandles
  <2>3. CASE ~InitFails(out)
    <3>1. out'.ad = out.ad /\ out'.ad_open = out.ad_open /\ out'.dev = out.dev
      BY <1>5, <2>1, <2>3 DEF CreateWAVFile, InitGoesOn, OutData
    <3>2. QED
      BY <3>1, SameHandles
  <2>4. QED
    BY <2>2, <2>3
<1>6. CASE AllocBuffer
  <2>1. PICK o \in OutData, b \in OutData :
          /\ InitGoesOn(b, "play") \/ InitFails(o)
          /\ b.ad = out.ad /\ b.ad_open = out.ad_open /\ b.dev = out.dev
          /\ o.ad = out.ad /\ o.ad_open = out.ad_open /\ o.dev = out.dev
    BY <1>6, AllocIs DEF AllocBuffer, Types
  <2>2. Handles(o) /\ Handles(b)
    BY <2>1, SameHandles
  <2>3. QED
    BY <2>1, <2>2, InitFailsHandles DEF InitGoesOn
<1>7. CASE RunOutput
  <2>1. CASE out.buf /\ out.wf # "closed"
    <3>1. PICK d, f, bad : RunTurn(d, f, bad)
      BY <1>7, <2>1, RunOutputIs
    <3>2. out'.ad = out.ad /\ out'.ad_open = out.ad_open /\ out'.dev = out.dev
      BY <3>1 DEF RunTurn
    <3>3. QED
      BY <3>2, SameHandles
  <2>2. CASE ~(out.buf /\ out.wf # "closed")
    BY <1>1, <1>7, <2>2 DEF RunOutput, Undefined, local_
  <2>3. QED
    BY <2>1, <2>2
<1>8. CASE EndPlay
  BY <1>1, <1>8, FiniHandles DEF EndPlay, Undefined, local_, Types
<1>9. CASE UNCHANGED playerVars
  BY <1>1, <1>9 DEF playerVars, local_
<1>10. CASE \E c \in Options : parse_option(c)
  BY <1>1, <1>10 DEF parse_option, local_
<1>11. CASE ScriptArgs \/ BuildScript \/ Built \/ SkipNull
  BY <1>1, <1>11 DEF ScriptArgs, BuildScript, Built, SkipNull, local_
<1>12. CASE NoAudioDev
  BY <1>1, <1>12 DEF NoAudioDev, InitGoesOn
<1>13. CASE BeginOutput \/ RunForDevice \/ NewGenerator \/ EndOutput
  BY <1>1, <1>13 DEF BeginOutput, Undefined, RunForDevice, NewGenerator, EndOutput, local_
<1>14. QED
  BY <1>2, <1>3, <1>4, <1>5, <1>6, <1>7, <1>8, <1>9, <1>10, <1>11, <1>12, <1>13 DEF PlayerNext

-----------------------------------------------------------------------------
(***************************************************************************)
(* The device is used as asked.                                            *)
(***************************************************************************)

LEMMA ReadyMeansAsked ==
  ASSUME Types, FlagsTell, SetUp, Handles(out)
  PROVE  DeviceUsedAsAsked
<1> DEFINE asked == Range(given)
<1>1. ASSUME phase \notin {"args", "build", "open", "fallback", "exited"}, "init" \notin failed
      PROVE  out.ad # None <=> /\ asked \cap {"m", "c"} = {}
                               /\ "o" \in asked => "a" \in asked
  <2>1. phase \in {"create", "alloc"} \cup Playing
    BY <1>1 DEF Types, Phases, SettingUp, SetUp
  <2>2. /\ "enable" \in flags <=> "a" \in asked
        /\ "disable" \in flags <=> "m" \in asked
        /\ "check" \in flags <=> "c" \in asked
        /\ "wav" \in flags <=> "o" \in asked
        /\ ~("enable" \in flags /\ "disable" \in flags)
    BY <1>1 DEF FlagsTell
  <2>3. CASE "check" \in flags
    BY <1>1, <2>1, <2>2, <2>3 DEF SetUp, Fresh
  <2>4. CASE "check" \notin flags
    <3>1. out.ad # None <=> UseAudiodev
      BY <1>1, <2>1, <2>4 DEF SetUp, DeviceReady
    <3>2. QED
      BY <2>2, <2>4, <3>1 DEF UseAudiodev
  <2>5. QED
    BY <2>3, <2>4
<1>2. ASSUME phase \notin {"args", "exited"}
      PROVE  ~({"a", "m"} \subseteq asked)
  BY <1>2 DEF FlagsTell
<1>3. out.dev.handles \cap Devices =
        IF out.ad_open THEN {out.dev.type} ELSE IF SndioKept THEN {"sndio"} ELSE {}
  <2>1. CASE out.ad_open
    BY <2>1 DEF Handles
  <2>2. CASE ~out.ad_open /\ out.ad # None
    BY <2>2 DEF Handles, SndioKept
  <2>3. CASE ~out.ad_open /\ out.ad = None
    BY <2>3 DEF Handles, SndioKept, Devices
  <2>4. QED
    BY <2>1, <2>2, <2>3
<1>4. QED
  BY <1>1, <1>2, <1>3 DEF DeviceUsedAsAsked, Devices

\* Whatever options are given in whatever order, and whatever fails, the device
\* is used when they ask for it, and no handle but that of the open device is
\* held open.
THEOREM DeviceAsAsked == PlayerSpec => []DeviceUsedAsAsked
<1> DEFINE Inv == Types /\ FlagsTell /\ SetUp /\ Handles(out)
<1>1. PlayerInit => Inv
  <2>1. ASSUME PlayerInit PROVE FlagsTell /\ Handles(out)
    <3>1. flags = {} /\ Range(given) = {}
      BY <2>1 DEF PlayerInit, Range
    <3>2. Handles(out)
      BY <2>1 DEF PlayerInit, Handles
    <3>3. QED
      BY <3>1, <3>2 DEF FlagsTell
  <2>2. QED
    BY <2>1, InitTypes, SetUpInits
<1>2. Inv /\ [PlayerNext]_playerVars => Inv'
  BY TypesKept, FlagsTellKept, SetUpKept, HandlesKept
<1>3. Inv => DeviceUsedAsAsked
  BY ReadyMeansAsked
<1>4. QED
  BY <1>1, <1>2, <1>3, PTL DEF PlayerSpec

-----------------------------------------------------------------------------
(***************************************************************************)
(* Errors are told of.                                                     *)
(***************************************************************************)

\* Until playing there is nothing to tell of but failures to set up, and no
\* program that would not be played.
LEMMA ErrorsAtFirst ==
  ASSUME Types, SetUp, phase \in SettingUp, PlayerNext
  PROVE  \/ "init" \in failed'
         \/ phase' \in SettingUp
         \/ phase' = "play" /\ failed' = {} /\ status' = TRUE
         \/ phase' = "exited" /\ progs' = progs /\ \A k \in DOMAIN progs : progs[k] = None
<1>1. failed = {} /\ status = TRUE
  BY DEF SetUp
<1>2. CASE \E c \in Options : parse_option(c)
  <2>1. phase = "args" /\ phase' \in {"args", "exited"} /\ progs' = progs
    BY <1>2 DEF parse_option, Exit
  <2>2. progs = <<>>
    BY <2>1 DEF SetUp
  <2>3. QED
    BY <2>1, <2>2 DEF SettingUp
<1>3. CASE ScriptArgs \/ BuildScript
  BY <1>3 DEF ScriptArgs, BuildScript, SettingUp
<1>4. CASE Built
  BY <1>1, <1>4 DEF Built, Exit, SettingUp, local_, history
<1>5. CASE NoAudioDev
  BY <1>5 DEF NoAudioDev, InitGoesOn, SettingUp
<1>6. CASE open_linux \/ open_oss \/ open_sndio
  BY <1>6 DEF open_linux, open_oss, open_sndio, Opened, InitGoesOn, InitFails, SettingUp
<1>7. CASE CreateWAVFile
  BY <1>7 DEF CreateWAVFile, InitGoesOn, InitFails, SettingUp
<1>8. CASE AllocBuffer
  BY <1>1, <1>8 DEF AllocBuffer, InitGoesOn, InitFails, RestKept
<1>9. phase \notin Playing
  BY DEF SettingUp, Playing
<1>10. QED
  BY <1>2, <1>3, <1>4, <1>5, <1>6, <1>7, <1>8, <1>9
  DEF PlayerNext, SkipNull, BeginOutput, RunForDevice, NewGenerator, RunOutput, EndOutput,
      OutputOver, EndPlay, Playing

LEMMA ErrorsKeptOn ==
  ASSUME Types, SetUp, ErrorsKept, [PlayerNext]_playerVars
  PROVE  ErrorsKept'
<1>1. CASE phase \in SettingUp /\ PlayerNext
  <2>1. \/ "init" \in failed'
        \/ phase' \in SettingUp
        \/ phase' = "play" /\ failed' = {} /\ status' = TRUE
        \/ phase' = "exited" /\ \A k \in DOMAIN progs' : progs'[k] = None
    BY <1>1, ErrorsAtFirst
  <2>2. QED
    BY <2>1 DEF ErrorsKept, ExitTellsOfErrors, SettingUp
<1>2. CASE SkipNull
  BY <1>2 DEF SkipNull, ErrorsKept, ExitTellsOfErrors, local_, history
<1>3. CASE BeginOutput
  <2>1. CASE out.ad # None /\ ~out.ad_open
    <3>1. phase' = "undefined" /\ failed' = failed
      BY <1>3, <2>1 DEF BeginOutput, Undefined, history
    <3>2. QED
      BY <3>1 DEF ErrorsKept, ExitTellsOfErrors
  <2>2. CASE ~(out.ad # None /\ ~out.ad_open)
    <3>1. CASE OutputFails
      BY <3>1 DEF OutputFails, ErrorsKept, ExitTellsOfErrors
    <3>2. CASE ~OutputFails
      <4>1. /\ error' = FALSE /\ status' = status /\ failed' = failed
            /\ phase' = CASE "check" \in flags -> "done" [] Split -> "device" [] OTHER -> "run"
        BY <1>3, <2>2, <3>2 DEF BeginOutput
      <4>2. phase' \in {"done", "device", "run"}
        BY <4>1
      <4>3. phase = "play"
        BY <1>3 DEF BeginOutput
      <4>4. QED
        BY <4>1, <4>2, <4>3 DEF ErrorsKept, ExitTellsOfErrors
    <3>3. QED
      BY <3>1, <3>2
  <2>3. QED
    BY <2>1, <2>2
<1>4. CASE RunForDevice
  <2>1. PICK bad \in SUBSET {"device", "file"} :
          failed' = failed \cup bad /\ error' = (error \/ bad # {})
    BY <1>4, RunForDeviceIs
  <2>2. phase = "device" /\ phase' = "device" /\ status' = status
    BY <1>4 DEF RunForDevice
  <2>3. status \in BOOLEAN /\ error \in BOOLEAN
    BY DEF Types
  <2>4. QED
    BY <2>1, <2>2, <2>3 DEF ErrorsKept, ExitTellsOfErrors
<1>5. CASE NewGenerator
  <2>1. CASE OutputFails
    BY <2>1 DEF OutputFails, ErrorsKept, ExitTellsOfErrors
  <2>2. CASE ~OutputFails
    <3>1. phase = "device" /\ phase' = "run" /\ UNCHANGED <<status, error, failed>>
      BY <1>5, <2>2 DEF NewGenerator
    <3>2. QED
      BY <3>1 DEF ErrorsKept, ExitTellsOfErrors
  <2>3. QED
    BY <2>1, <2>2
<1>6. CASE RunOutput
  <2>1. CASE out.buf /\ out.wf # "closed"
    <3>1. PICK d, f, bad : RunTurn(d, f, bad)
      BY <1>6, <2>1, RunOutputIs
    <3>2. phase = "run" /\ phase' = "run" /\ status' = status /\ bad \subseteq {"device", "file"}
          /\ failed' = failed \cup bad /\ error' = (error \/ bad # {})
      BY <1>6, <3>1 DEF RunTurn, RunOutput
    <3>3. status \in BOOLEAN /\ error \in BOOLEAN
      BY DEF Types
    <3>4. QED
      BY <3>2, <3>3 DEF ErrorsKept, ExitTellsOfErrors
  <2>2. CASE ~(out.buf /\ out.wf # "closed")
    <3>1. phase' = "undefined" /\ failed' = failed
      BY <1>6, <2>2 DEF RunOutput, Undefined, history
    <3>2. QED
      BY <3>1 DEF ErrorsKept, ExitTellsOfErrors
  <2>3. QED
    BY <2>1, <2>2
<1>7. CASE EndOutput
  <2>1. /\ phase \in {"run", "done"} /\ phase' = "play" /\ failed' = failed
        /\ status' = (status /\ ~error)
    BY <1>7 DEF EndOutput, OutputOver, history
  <2>2. QED
    BY <2>1 DEF ErrorsKept, ExitTellsOfErrors
<1>8. CASE EndPlay
  <2>1. CASE out.wf = "closed" \/ (out.ad # None /\ ~out.ad_open)
    <3>1. phase' = "undefined" /\ failed' = failed
      BY <1>8, <2>1 DEF EndPlay, Undefined, history
    <3>2. QED
      BY <3>1 DEF ErrorsKept, ExitTellsOfErrors
  <2>2. CASE ~(out.wf = "closed" \/ (out.ad # None /\ ~out.ad_open))
    <3>1. PICK ferror \in FerrorValues :
            /\ Exit(IF status /\ ~ferror THEN 0 ELSE 1)
            /\ failed' = IF ferror THEN failed \cup {"file"} ELSE failed
      BY <1>8, <2>2 DEF EndPlay
    <3>2. phase' = "exited" /\ (exit' = 0 <=> status /\ ~ferror)
      BY <3>1 DEF Exit
    <3>3. "init" \in failed' <=> "init" \in failed
      BY <3>1
    <3>4. failed' = {} <=> failed = {} /\ ~ferror
      BY <3>1
    <3>5. phase = "play"
      BY <1>8 DEF EndPlay
    <3>6. QED
      BY <3>2, <3>3, <3>4, <3>5 DEF ErrorsKept, ExitTellsOfErrors
  <2>3. QED
    BY <2>1, <2>2
<1>9. CASE UNCHANGED playerVars
  BY <1>9 DEF playerVars, local_, history, ErrorsKept, ExitTellsOfErrors
<1>10. CASE phase \notin SettingUp /\ PlayerNext
  <2>1. ~ \E c \in Options : parse_option(c)
    BY <1>10 DEF parse_option, SettingUp
  <2>2. ~(ScriptArgs \/ BuildScript \/ Built \/ NoAudioDev)
    BY <1>10 DEF ScriptArgs, BuildScript, Built, NoAudioDev, SettingUp
  <2>3. ~(open_linux \/ open_oss \/ open_sndio \/ CreateWAVFile \/ AllocBuffer)
    BY <1>10 DEF open_linux, open_oss, open_sndio, CreateWAVFile, AllocBuffer, SettingUp
  <2>4. QED
    BY <1>2, <1>3, <1>4, <1>5, <1>6, <1>7, <1>8, <1>10, <2>1, <2>2, <2>3 DEF PlayerNext
<1>11. QED
  BY <1>1, <1>9, <1>10

\* The exit status tells of every failure in whichever program once the output
\* is set up, and nothing that was closed is used then.
THEOREM ErrorsTold == PlayerSpec => []ErrorsAreToldOf
<1> DEFINE Inv == Types /\ FlagsTell /\ SetUp /\ ErrorsKept
<1>1. PlayerInit => Inv
  <2>1. ASSUME PlayerInit PROVE FlagsTell /\ ErrorsKept
    <3>1. flags = {} /\ Range(given) = {} /\ phase = "args"
      BY <2>1 DEF PlayerInit, Range
    <3>2. QED
      BY <3>1 DEF FlagsTell, ErrorsKept, ExitTellsOfErrors
  <2>2. QED
    BY <2>1, InitTypes, SetUpInits
<1>2. Inv /\ [PlayerNext]_playerVars => Inv'
  BY TypesKept, FlagsTellKept, SetUpKept, ErrorsKeptOn
<1>3. Inv => ErrorsAreToldOf
  BY DEF ErrorsAreToldOf, ErrorsKept, SetUp
<1>4. QED
  BY <1>1, <1>2, <1>3, PTL DEF PlayerSpec

-----------------------------------------------------------------------------
(***************************************************************************)
(* The header tells the size.                                              *)
(***************************************************************************)

LEMMA WrittenIsSeq ==
  ASSUME NEW d \in Written
  PROVE  Len(d) = MaxScripts /\ DOMAIN d = 1..MaxScripts /\ d \in Seq(Nat)
<1>1. d \in Seq(Nat) /\ DOMAIN d = 1..MaxScripts
  BY ConstantTypes DEF Written
<1>2. Len(d) \in Nat /\ DOMAIN d = 1..Len(d)
  BY <1>1
<1>3. PICK n \in Nat : n = Len(d) /\ 1..n = 1..MaxScripts
  BY <1>1, <1>2
<1>4. n = MaxScripts
  BY <1>3, ConstantTypes
<1>5. QED
  BY <1>1, <1>3, <1>4

\* The total is the last of the sums.
LEMMA TotalIs ==
  ASSUME NEW d \in Written, NEW g \in [0..MaxScripts -> Nat], g[0] = 0,
         \A k \in 1..MaxScripts : g[k] = g[k - 1] + d[k]
  PROVE  Total(d) = g[MaxScripts]
<1> DEFINE n == MaxScripts
           step(f) == [k \in 0..Len(d) |-> IF k = 0 THEN 0 ELSE f[k - 1] + d[k]]
           sum == CHOOSE f : f = step(f)
<1>1. n \in Nat /\ Len(d) = n
  BY ConstantTypes, WrittenIsSeq
<1>2. g = step(g)
  <2>1. \A k \in 0..n : g[k] = step(g)[k]
    BY <1>1
  <2>2. QED
    BY <1>1, <2>1
<1>3. sum = step(sum)
  <2> HIDE DEF step
  <2>1. QED
    BY <1>2
<1> HIDE DEF sum
<1>4. Total(d) = sum[n]
  BY <1>1 DEF Total, sum
<1>5. sum[0] = 0 /\ \A k \in 1..n : sum[k] = sum[k - 1] + d[k]
  BY <1>1, <1>3
<1>6. sum[n] = g[n]
  <2> DEFINE bad == {k \in 0..n : sum[k] # g[k]}
  <2>1. SUFFICES ASSUME bad # {} PROVE FALSE
    BY <1>1
  <2>2. PICK k \in bad : \A j \in bad : k <= j
    <3>1. bad \in SUBSET Nat
      BY <1>1
    <3> HIDE DEF bad
    <3>2. QED
      BY <2>1, <3>1, LeastNatural
  <2>3. k \in 1..n
    BY <1>1, <1>5, <2>2
  <2>4. k - 1 \in 0..n /\ k - 1 \notin bad
    BY <1>1, <2>2, <2>3
  <2>5. sum[k - 1] = g[k - 1]
    BY <2>4
  <2>6. QED
    BY <1>1, <1>5, <2>2, <2>3, <2>5
<1>7. QED
  BY <1>4, <1>6

LEMMA SumsOf ==
  ASSUME NEW d \in Written
  PROVE  \E g \in [0..MaxScripts -> Nat] :
            /\ g[0] = 0 /\ \A k \in 1..MaxScripts : g[k] = g[k - 1] + d[k]
            /\ Total(d) = g[MaxScripts]
<1>1. \A k \in 1..MaxScripts : d[k] \in Nat
  BY DEF Written
<1>2. PICK g \in [0..MaxScripts -> Nat] :
        g[0] = 0 /\ \A k \in 1..MaxScripts : g[k] = g[k - 1] + d[k]
  BY ZenonT(30), <1>1, ConstantTypes, SumsExist
<1>3. QED
  BY <1>2, ConstantTypes, TotalIs

LEMMA TotalType ==
  ASSUME NEW d \in Written
  PROVE  Total(d) \in Nat
BY SumsOf, ConstantTypes

\* What is added to one is added to the total.
LEMMA TotalGrows ==
  ASSUME NEW d \in Written, NEW e \in Written, NEW i \in 1..MaxScripts, NEW x \in Nat,
         e[i] = d[i] + x, \A j \in 1..MaxScripts : j # i => e[j] = d[j]
  PROVE  Total(e) = Total(d) + x
<1>1. \A k \in 1..MaxScripts : d[k] \in Nat
  BY DEF Written
<1>2. PICK g \in [0..MaxScripts -> Nat] :
        /\ g[0] = 0 /\ \A k \in 1..MaxScripts : g[k] = g[k - 1] + d[k]
        /\ Total(d) = g[MaxScripts]
  BY SumsOf
<1> DEFINE h == [k \in 0..MaxScripts |-> IF k < i THEN g[k] ELSE g[k] + x]
<1>3. h \in [0..MaxScripts -> Nat] /\ h[0] = 0 /\ h[MaxScripts] = g[MaxScripts] + x
  BY <1>2, ConstantTypes
<1>4. ASSUME NEW k \in 1..MaxScripts PROVE h[k] = h[k - 1] + e[k]
  <2>1. k \in 0..MaxScripts /\ k - 1 \in 0..MaxScripts
    BY ConstantTypes
  <2>2. g[k] = g[k - 1] + d[k] /\ g[k] \in Nat /\ g[k - 1] \in Nat /\ d[k] \in Nat
    BY <1>1, <1>2, <2>1
  <2>3. CASE k < i
    BY <2>1, <2>2, <2>3
  <2>4. CASE k = i
    BY <2>1, <2>2, <2>4
  <2>5. CASE k > i
    BY <2>1, <2>2, <2>5
  <2>6. QED
    BY <2>3, <2>4, <2>5, ConstantTypes
<1>5. Total(d) = g[MaxScripts]
  BY <1>2
<1>6. Total(e) = h[MaxScripts]
  <2> HIDE DEF h
  <2>1. QED
    BY <1>3, <1>4, TotalIs
<1>7. QED
  BY <1>3, <1>5, <1>6

\* What is written is counted, up to the width of the counter.
LEMMA CountKept ==
  ASSUME NEW d \in Written, NEW e \in Written, NEW x \in Nat, at \in 1..MaxScripts,
         Took(d, e, x), NEW n, n = (Total(d) % WordSize), NEW m, m = ((n + x) % WordSize)
  PROVE  m = (Total(e) % WordSize)
<1>1. e[at] = d[at] + x /\ \A j \in 1..MaxScripts : j # at => e[j] = d[j]
  BY TookType
<1>2. Total(e) = Total(d) + x /\ Total(d) \in Nat
  BY <1>1, TotalGrows, TotalType
<1>3. PICK t \in Nat : t = Total(d)
  BY <1>2
<1>4. ((t % WordSize) + x) % WordSize = (t + x) % WordSize
  <2>1. WordSize \in Nat \ {0} /\ t \in Int /\ x \in Int
    BY ConstantTypes
  <2>2. QED
    BY <2>1, ModAdd, Zenon
<1>5. QED
  BY <1>2, <1>3, <1>4

\* A file is closed with the count that it has then.
LEMMA HeaderOnFini ==
  ASSUME Types, HeaderKept, NEW o \in OutData, o.samples = out.samples,
         o.wf = "closed" => out.wf = "closed", fini_Output(o)
  PROVE  HeaderKept'
<1>1. file \in FileData
  BY DEF Types
<1>2. /\ out'.samples = out.samples /\ file'.data = file.data
      /\ o.wf = "open" => out'.wf = "closed" /\ file'.header = ClosedHeader(out.samples)
      /\ o.wf # "open" => out'.wf = o.wf /\ file' = file
  BY <1>1, FiniIs
<1>3. CASE o.wf = "open"
  BY <1>2, <1>3 DEF HeaderKept
<1>4. CASE o.wf # "open"
  BY <1>2, <1>4 DEF HeaderKept
<1>5. QED
  BY <1>3, <1>4

LEMMA HeaderSame ==
  ASSUME HeaderKept, file' = file, out'.samples = out.samples,
         out'.wf = "closed" => out.wf = "closed"
  PROVE  HeaderKept'
BY DEF HeaderKept

LEMMA HeaderKeptOn ==
  ASSUME Types, SetUp, HeaderKept, [PlayerNext]_playerVars
  PROVE  HeaderKept'
<1>0. out \in OutData
  BY DEF Types
<1>1. CASE UNCHANGED <<out, file>>
  BY <1>1 DEF HeaderKept
<1>2. ASSUME InitFails(out) PROVE HeaderKept'
  BY <1>0, <1>2, InitFailsIs, HeaderOnFini
<1>3. ASSUME NEW type \in Devices, NEW handles \in SUBSET (Devices \cup {"hw_params"}),
             Opened(type, handles)
      PROVE  HeaderKept'
  <2>1. out'.wf = out.wf /\ out'.samples = out.samples /\ file' = file
    BY <1>0, <1>3, OpenedIs DEF Types
  <2>2. QED
    BY <2>1, HeaderSame
<1>4. /\ {"alsa", "hw_params"} \in SUBSET (Devices \cup {"hw_params"})
      /\ {"oss"} \in SUBSET (Devices \cup {"hw_params"})
      /\ {"sndio"} \in SUBSET (Devices \cup {"hw_params"})
      /\ "alsa" \in Devices /\ "oss" \in Devices /\ "sndio" \in Devices
  BY DEF Devices
<1>5. CASE open_linux
  BY <1>1, <1>2, <1>3, <1>4, <1>5 DEF open_linux, InitGoesOn
<1>6. CASE open_oss
  BY <1>2, <1>3, <1>4, <1>6 DEF open_oss
<1>7. CASE open_sndio
  <2>1. ASSUME NEW left \in {{}, {"sndio"}}, InitFails([out EXCEPT !.dev.handles = left])
        PROVE  HeaderKept'
    <3>1. PICK o : o = [out EXCEPT !.dev.handles = left]
      OBVIOUS
    <3>2. o \in OutData /\ o.samples = out.samples /\ o.wf = out.wf
      BY <1>0, <3>1 DEF OutData, Devices
    <3>3. QED
      BY <2>1, <3>1, <3>2, InitFailsIs, HeaderOnFini
  <2>2. QED
    BY <1>3, <1>4, <1>7, <2>1 DEF open_sndio
<1>8. CASE CreateWAVFile
  <2>1. CASE InitFails(out)
    BY <1>2, <2>1
  <2>2. CASE ~InitFails(out)
    <3>1. out'.samples = out.samples /\ file' = file /\ (out'.wf = "closed" => out.wf = "closed")
      BY <1>0, <1>8, <2>2 DEF CreateWAVFile, InitGoesOn, OutData
    <3>2. QED
      BY <3>1, HeaderSame
  <2>3. QED
    BY <2>1, <2>2
<1>9. CASE AllocBuffer
  <2>1. PICK o \in OutData, b \in OutData :
          /\ InitGoesOn(b, "play") \/ InitFails(o)
          /\ b.samples = out.samples /\ b.wf = out.wf
          /\ o.samples = out.samples /\ o.wf = out.wf
    BY <1>9, AllocIs DEF AllocBuffer, Types
  <2>2. CASE InitFails(o)
    BY <2>1, <2>2, InitFailsIs, HeaderOnFini
  <2>3. CASE InitGoesOn(b, "play")
    BY <2>1, <2>3, HeaderSame DEF InitGoesOn
  <2>4. QED
    BY <2>1, <2>2, <2>3
<1>10. CASE RunOutput
  <2>1. CASE out.buf /\ out.wf # "closed"
    <3>1. PICK d, f, bad : RunTurn(d, f, bad)
      BY <1>10, <2>1, RunOutputIs
    <3>2. out'.wf = out.wf /\ out.wf # "closed"
      BY <3>1 DEF RunTurn
    <3>3. CASE ToFile
      <4>1. /\ f \in Nat /\ Took(file.data, file'.data, f)
            /\ out'.samples = ((out.samples + f) % WordSize)
            /\ file.data \in Written /\ file'.data \in Written
        BY <3>1, <3>3 DEF RunTurn, Types, FileData
      <4>2. at \in 1..MaxScripts
        BY <1>10, ConstantTypes DEF RunOutput, Types
      <4>3. out.samples = (Total(file.data) % WordSize)
        BY DEF HeaderKept
      <4>4. out'.samples = (Total(file'.data) % WordSize)
        BY <4>1, <4>2, <4>3, CountKept
      <4>5. QED
        BY <3>2, <4>4 DEF HeaderKept
    <3>4. CASE ~ToFile
      BY <1>1, <3>1, <3>4 DEF RunTurn
    <3>5. QED
      BY <3>3, <3>4
  <2>2. CASE ~(out.buf /\ out.wf # "closed")
    BY <1>1, <1>10, <2>2 DEF RunOutput, Undefined, local_, history
  <2>3. QED
    BY <2>1, <2>2
<1>11. CASE EndPlay
  BY <1>0, <1>1, <1>11, HeaderOnFini DEF EndPlay, Undefined, local_, history
<1>12. CASE UNCHANGED playerVars
  BY <1>1, <1>12 DEF playerVars, local_, history
<1>13. CASE \E c \in Options : parse_option(c)
  BY <1>1, <1>13 DEF parse_option, local_
<1>14. CASE ScriptArgs \/ BuildScript \/ Built \/ SkipNull
  BY <1>1, <1>14 DEF ScriptArgs, BuildScript, Built, SkipNull, local_, history
<1>15. CASE NoAudioDev
  BY <1>1, <1>15 DEF NoAudioDev, InitGoesOn
<1>16. CASE BeginOutput \/ RunForDevice \/ NewGenerator \/ EndOutput
  BY <1>1, <1>16
  DEF BeginOutput, Undefined, RunForDevice, NewGenerator, EndOutput, local_, history
<1>17. QED
  BY <1>5, <1>6, <1>7, <1>8, <1>9, <1>10, <1>11, <1>12, <1>13, <1>14, <1>15, <1>16
  DEF PlayerNext

LEMMA HeaderFits ==
  ASSUME Types, HeaderKept
  PROVE  HeaderTellsSizeThatFits
<1>1. file.data \in Written
  BY DEF Types, FileData
<1>2. PICK t \in Nat : t = Total(file.data)
  BY <1>1, TotalType
<1>3. PICK s \in Nat : s = FrameBytes * t
  BY ConstantTypes
<1>4. Size = s
  BY <1>2, <1>3 DEF Size
<1>5. ASSUME 36 + s < WordSize, out.wf = "closed"
      PROVE  file.header = [riff |-> 36 + s, data |-> s]
  <2>1. s % WordSize = s /\ (36 + s) % WordSize = 36 + s
    <3>1. \A x \in 0..(WordSize - 1) : x % WordSize = x
      BY ConstantTypes
    <3>2. s \in 0..(WordSize - 1) /\ 36 + s \in 0..(WordSize - 1)
      BY <1>5, ConstantTypes
    <3>3. QED
      BY <3>1, <3>2
  <2>2. FrameBytes * (t % WordSize) = s
    <3>1. CASE FrameBytes = 0
      <4>1. PICK r \in Nat : r = (t % WordSize)
        BY ConstantTypes, DivMod
      <4>2. FrameBytes * r = 0 /\ s = 0
        BY <1>3, <3>1, <4>1
      <4>3. QED
        BY <4>1, <4>2
    <3>2. CASE FrameBytes # 0
      <4>1. t <= s
        BY <1>3, <3>2, ConstantTypes, MultipleNoLess
      <4>2. t \in 0..(WordSize - 1)
        BY <1>5, <4>1, ConstantTypes
      <4>3. t % WordSize = t
        BY <4>2, ConstantTypes
      <4>4. QED
        BY <1>3, <4>3
    <3>3. QED
      BY <3>1, <3>2
  <2>3. file.header = ClosedHeader(t % WordSize)
    BY <1>2, <1>5 DEF HeaderKept
  <2>4. QED
    BY <2>1, <2>2, <2>3 DEF ClosedHeader
<1>6. QED
  BY <1>4, <1>5 DEF HeaderTellsSizeThatFits, HeaderTellsSize

\* A file that was closed has the size of its data in its header, if the size is
\* one that fits, however many programs were written to it and whatever failed.
THEOREM HeaderIsRight == PlayerSpec => []HeaderTellsSizeThatFits
<1> DEFINE Inv == Types /\ FlagsTell /\ SetUp /\ HeaderKept
<1>1. PlayerInit => Inv
  <2>1. ASSUME PlayerInit PROVE FlagsTell /\ HeaderKept
    <3>1. flags = {} /\ Range(given) = {}
      BY <2>1 DEF PlayerInit, Range
    <3>2. FlagsTell
      BY <3>1 DEF FlagsTell
    <3>3. out.samples = 0 /\ out.wf = "none" /\ file.data = [k \in 1..MaxScripts |-> 0]
      BY <2>1 DEF PlayerInit
    <3>4. Total(file.data) = 0
      <4> DEFINE g == [k \in 0..MaxScripts |-> 0]
      <4>1. file.data \in Written
        BY <3>3 DEF Written
      <4>2. /\ g \in [0..MaxScripts -> Nat] /\ g[0] = 0 /\ g[MaxScripts] = 0
            /\ \A k \in 1..MaxScripts : g[k] = g[k - 1] + file.data[k]
        BY <3>3, ConstantTypes
      <4> HIDE DEF g
      <4>3. QED
        BY <4>1, <4>2, TotalIs
    <3>5. 0 % WordSize = 0
      BY ConstantTypes
    <3>6. QED
      BY <3>2, <3>3, <3>4, <3>5 DEF HeaderKept
  <2>2. QED
    BY <2>1, InitTypes, SetUpInits
<1>2. Inv /\ [PlayerNext]_playerVars => Inv'
  BY TypesKept, FlagsTellKept, SetUpKept, HeaderKeptOn
<1>3. Inv => HeaderTellsSizeThatFits
  BY HeaderFits
<1>4. QED
  BY <1>1, <1>2, <1>3, PTL DEF PlayerSpec

-----------------------------------------------------------------------------
(***************************************************************************)
(* The outputs get all programs.                                           *)
(***************************************************************************)

\* Nothing is written before playing.
LEMMA NothingAtFirst ==
  ASSUME Types, SetUp, phase \in SettingUp, PlayerNext
  PROVE  at = 1 /\ at' = 1 /\ device' = device /\ file'.data = file.data
<1>0. at = 1 /\ file \in FileData /\ out \in OutData
  BY DEF SetUp, Types
<1>1. ASSUME NEW o \in OutData, InitFails(o) PROVE file'.data = file.data
  BY <1>0, <1>1, InitFailsIs, FiniIs
<1>2. CASE \E c \in Options : parse_option(c)
  BY <1>0, <1>2 DEF parse_option
<1>3. CASE ScriptArgs \/ BuildScript \/ Built
  BY <1>0, <1>3 DEF ScriptArgs, BuildScript, Built, history
<1>4. CASE NoAudioDev
  BY <1>0, <1>4 DEF NoAudioDev, InitGoesOn, RestKept
<1>5. CASE open_linux \/ open_oss
  BY <1>0, <1>1, <1>5 DEF open_linux, open_oss, Opened, InitGoesOn, RestKept
<1>6. CASE open_sndio
  <2>1. \A left \in {{}, {"sndio"}} : [out EXCEPT !.dev.handles = left] \in OutData
    BY <1>0 DEF OutData, Devices
  <2>2. QED
    BY <1>0, <1>1, <1>6, <2>1 DEF open_sndio, Opened, InitGoesOn, RestKept
<1>7. CASE CreateWAVFile
  BY <1>0, <1>1, <1>7 DEF CreateWAVFile, InitGoesOn, RestKept
<1>8. CASE AllocBuffer
  <2>1. PICK o \in OutData, b \in OutData : InitGoesOn(b, "play") \/ InitFails(o)
    BY <1>8, AllocIs DEF AllocBuffer, Types
  <2>2. QED
    BY <1>0, <1>1, <1>8, <2>1 DEF AllocBuffer, InitGoesOn, RestKept
<1>9. phase \notin Playing
  BY DEF SettingUp, Playing
<1>10. QED
  BY <1>2, <1>3, <1>4, <1>5, <1>6, <1>7, <1>8, <1>9
  DEF PlayerNext, SkipNull, BeginOutput, RunForDevice, NewGenerator, RunOutput, EndOutput,
      OutputOver, EndPlay, Playing

LEMMA DeliveredAtFirst ==
  ASSUME Types, SetUp, Delivered, phase \in SettingUp, PlayerNext
  PROVE  Delivered'
<1>1. at = 1 /\ at' = 1 /\ device' = device /\ file'.data = file.data
  BY NothingAtFirst
<1>2. \/ "init" \in failed'
      \/ phase' \in SettingUp
      \/ phase' = "play" /\ failed' = {} /\ status' = TRUE
      \/ phase' = "exited" /\ progs' = progs /\ \A k \in DOMAIN progs : progs[k] = None
  BY ErrorsAtFirst
<1>3. phase' \in SettingUp \cup {"play", "exited", "undefined"}
  <2>1. CASE \E c \in Options : parse_option(c)
    BY <2>1 DEF parse_option, Exit, SettingUp
  <2>2. CASE ScriptArgs \/ BuildScript \/ Built \/ NoAudioDev
    BY <2>2 DEF ScriptArgs, BuildScript, Built, NoAudioDev, InitGoesOn, Exit, SettingUp
  <2>3. CASE open_linux \/ open_oss \/ open_sndio
    BY <2>3, InitFailsIs DEF open_linux, open_oss, open_sndio, Opened, InitGoesOn, SettingUp
  <2>4. CASE CreateWAVFile
    BY <2>4, InitFailsIs DEF CreateWAVFile, InitGoesOn, SettingUp
  <2>5. CASE AllocBuffer
    BY <2>5, InitFailsIs DEF AllocBuffer, InitGoesOn, SettingUp
  <2>6. phase \notin Playing
    BY DEF SettingUp, Playing
  <2>7. QED
    BY <2>1, <2>2, <2>3, <2>4, <2>5, <2>6
    DEF PlayerNext, SkipNull, BeginOutput, RunForDevice, NewGenerator, RunOutput, EndOutput,
        OutputOver, EndPlay, Playing
<1>4. \A k \in 1..MaxScripts : k > at \/ k = at => NothingYet(k)
  BY <1>1 DEF Delivered, SettingUp
<1>5. \A k \in 1..MaxScripts : k > at' \/ k = at' => NothingYet(k)'
  BY <1>1, <1>4 DEF NothingYet
<1>6. phase' \notin {"device", "run"}
  BY <1>3 DEF SettingUp
<1>7. SinksGetAllPrograms'
  BY <1>2 DEF SinksGetAllPrograms, SettingUp
<1>8. \A k \in 1..(at' - 1) : FALSE
  BY <1>1
<1>9. QED
  BY <1>5, <1>6, <1>7, <1>8 DEF Delivered

\* What was got stays so, and no more is got of what was.
LEMMA GotStays ==
  ASSUME NEW k, GotAll(k), UNCHANGED <<progs, srate>>, out'.ad = out.ad,
         out'.wf = "none" <=> out.wf = "none", device'[k] = device[k],
         file'.data[k] = file.data[k]
  PROVE  GotAll(k)'
BY DEF GotAll

\* All was got when the generator has nothing left.
LEMMA GotWhenOver ==
  ASSUME Types, SetUp, Delivered, phase \in {"device", "run"}, failed = {}, RunLen = 0
  PROVE  /\ gen = 0
         /\ phase = "device" => DeviceGotAll
         /\ phase = "run" => GotAll(at)
<1>1. "check" \notin flags /\ out.ch_len > 0
  BY DEF SetUp, Playing
<1>2. gen = 0
  BY <1>1, RunLenIs DEF Types
<1>3. at \in 1..MaxScripts
  BY ConstantTypes DEF Types
<1>4. device[at] \in Nat /\ file.data[at] \in Nat
  BY <1>3 DEF Types, Written, FileData
<1>5. device[at] + gen = device[at] /\ file.data[at] + gen = file.data[at]
  BY <1>2, <1>4
<1>6. phase = "device" => DeviceGotAll
  BY <1>1, <1>5 DEF Delivered, Playing, DeviceGetsAll, DeviceGotAll
<1>7. ASSUME phase = "run" PROVE GotAll(at)
  BY <1>1, <1>5, <1>7 DEF Delivered, Playing, DeviceGetsAll, DeviceGotAll, FileGetsAll, GotAll
<1>8. QED
  BY <1>2, <1>6, <1>7

\* Going on to the next program.
LEMMA DeliveredNext ==
  ASSUME Types, Delivered, phase \in Playing, phase' = "play", at' = at + 1,
         UNCHANGED <<flags, srate, progs, out, device, file>>,
         failed' = {} /\ "check" \notin flags => failed = {} /\ (progs[at] # None => GotAll(at))
  PROVE  Delivered'
<1>1. at \in Nat
  BY DEF Types
<1>2. \A k \in 1..MaxScripts : k > at => NothingYet(k)'
  BY DEF Delivered, NothingYet
<1>3. ASSUME failed' = {}, "check" \notin flags', NEW k \in 1..(at' - 1), progs'[k] # None
      PROVE  GotAll(k)'
  <2>1. GotAll(k)
    <3>1. k \in 1..(at - 1) \/ k = at
      BY <1>1
    <3>2. QED
      BY <1>3, <3>1 DEF Delivered
  <2>2. QED
    BY <2>1 DEF GotAll
<1>4. SinksGetAllPrograms'
  BY DEF SinksGetAllPrograms
<1>5. \A k \in 1..MaxScripts : k > at' \/ k = at' => k > at
  BY <1>1
<1>6. QED
  BY <1>2, <1>3, <1>4, <1>5 DEF Delivered

LEMMA DeliveredBegin ==
  ASSUME Types, SetUp, Delivered, BeginOutput, ~(out.ad # None /\ ~out.ad_open), ~OutputFails
  PROVE  Delivered'
<1>1. /\ phase = "play" /\ at <= Len(progs) /\ progs[at] # None
      /\ gen' = progs[at] * (IF out.ad # None THEN out.ad ELSE srate)
      /\ UNCHANGED <<flags, srate, progs, at, out, device, file, failed>>
      /\ phase' = CASE "check" \in flags -> "done" [] Split -> "device" [] OTHER -> "run"
  BY DEF BeginOutput
<1>2. \/ "check" \in flags /\ phase' = "done"
      \/ "check" \notin flags /\ Split /\ phase' = "device"
      \/ "check" \notin flags /\ ~Split /\ phase' = "run"
  <2>1. CASE "check" \in flags
    BY <1>1, <2>1 DEF SetUp, Playing, Fresh, Split
  <2>2. CASE "check" \notin flags /\ Split
    BY <1>1, <2>2
  <2>3. CASE "check" \notin flags /\ ~Split
    BY <1>1, <2>3
  <2>4. QED
    BY <2>1, <2>2, <2>3
<1>3. at \in 1..MaxScripts /\ progs[at] \in Nat
  BY <1>1, ConstantTypes, ProgramTypes DEF Types
<1>4. \A k \in 1..MaxScripts : k > at \/ k = at => NothingYet(k)
  BY <1>1 DEF Delivered, Playing
<1>5. device[at] = 0 /\ file.data[at] = 0
  BY <1>3, <1>4 DEF NothingYet
<1>6. PICK ad \in Nat, sr \in Nat : /\ out.ad # None => ad = progs[at] * out.ad
                                    /\ sr = progs[at] * srate
  <2>1. out.ad # None => out.ad \in Nat
    BY DEF Types, OutData
  <2>2. srate \in Nat
    BY DEF Types
  <2>3. progs[at] * srate \in Nat /\ (out.ad # None => progs[at] * out.ad \in Nat)
    BY <1>3, <2>1, <2>2
  <2>4. CASE out.ad # None
    BY <2>3, <2>4
  <2>5. CASE out.ad = None
    BY <2>3, <2>5
  <2>6. QED
    BY <2>4, <2>5
<1>7. /\ out.ad # None => gen' = ad
      /\ out.ad = None => gen' = sr
  BY <1>1, <1>6
<1>8. 0 + ad = ad /\ 0 + sr = sr
  OBVIOUS
<1>9. DeviceGetsAll'
  BY <1>1, <1>5, <1>6, <1>7, <1>8 DEF DeviceGetsAll
<1>10. ASSUME phase' = "run" PROVE FileGetsAll'
  <2>1. ~Split
    BY <1>2, <1>10
  <2>2. out.wf # "none" /\ out.ad # None => ad = sr
    BY <1>6, <2>1 DEF Split
  <2>3. out.wf # "none" => gen' = sr
    BY <1>7, <2>2
  <2>4. QED
    BY <1>1, <1>5, <1>6, <1>8, <2>3 DEF FileGetsAll
<1>11. Split' = Split
  BY <1>1 DEF Split
<1>12. ASSUME NEW k \in 1..(at - 1), failed' = {}, "check" \notin flags', progs'[k] # None
       PROVE  GotAll(k)'
  <2>1. GotAll(k)
    BY <1>1, <1>12 DEF Delivered, Playing
  <2>2. QED
    BY <1>1, <2>1 DEF GotAll
<1>13. \A k \in 1..MaxScripts : k > at \/ k = at => NothingYet(k)'
  BY <1>1, <1>4 DEF NothingYet
<1>14. SinksGetAllPrograms'
  BY <1>2 DEF SinksGetAllPrograms
<1>15. phase' = "device" => file'.data[at'] = 0
  BY <1>1, <1>5
<1>16. phase' = "run" => ~Split
  BY <1>2
<1>17. at' = at
  BY <1>1
<1>18. QED
  BY <1>9, <1>10, <1>11, <1>12, <1>13, <1>14, <1>15, <1>16, <1>17 DEF Delivered

\* A turn of either loop adds to what is got of this program alone, as much as
\* the generator has less.
LEMMA DeliveredTurn ==
  ASSUME Types, SetUp, Delivered, phase \in {"device", "run"}, phase' = phase,
         UNCHANGED <<flags, srate, progs, at>>, out'.ad = out.ad, out'.wf = out.wf,
         NEW d \in Nat, NEW f \in Nat, NEW bad, failed' = failed \cup bad,
         bad = {} => d = RunLen /\ f = RunLen, gen' = gen - RunLen,
         phase = "device" \/ ToDevice => Took(device, device', d),
         phase = "run" /\ ~ToDevice => device' = device,
         phase = "run" /\ ToFile => Took(file.data, file'.data, f),
         phase = "device" \/ ~ToFile => file' = file,
         phase = "run" => out.wf # "closed"
  PROVE  Delivered'
<1>1. at \in 1..MaxScripts /\ gen \in Nat /\ RunLen \in Nat
  BY ConstantTypes, RunLenIs DEF Types
<1>2. device \in Written /\ file.data \in Written
  BY DEF Types, FileData
<1>3. /\ device' = device \/ Took(device, device', d)
      /\ file' = file \/ Took(file.data, file'.data, f)
  OBVIOUS
<1>4. /\ \A k \in 1..MaxScripts : k # at => device'[k] = device[k]
      /\ \A k \in 1..MaxScripts : k # at => file'.data[k] = file.data[k]
      /\ Took(device, device', d) => device'[at] = device[at] + d
      /\ Took(file.data, file'.data, f) => file'.data[at] = file.data[at] + f
  BY <1>1, <1>2, <1>3, TookType
<1>5. \A k \in 1..MaxScripts : k > at' => NothingYet(k)'
  <2>1. \A k \in 1..MaxScripts : k > at => NothingYet(k) /\ k # at
    BY <1>1 DEF Delivered, Playing
  <2>2. QED
    BY <1>4, <2>1 DEF NothingYet
<1>6. phase' = "device" => file'.data[at'] = 0
  BY DEF Delivered
<1>7. ASSUME failed' = {}, "check" \notin flags'
      PROVE  /\ \A k \in 1..(at' - 1) : progs'[k] # None => GotAll(k)'
             /\ phase' = "device" => DeviceGetsAll'
             /\ phase' = "run" => /\ Split' => DeviceGotAll'
                                  /\ ~Split' => DeviceGetsAll'
                                  /\ FileGetsAll'
  <2>1. failed = {} /\ bad = {} /\ d = RunLen /\ f = RunLen /\ "check" \notin flags
    BY <1>7
  <2>2. /\ \A k \in 1..(at - 1) : progs[k] # None => GotAll(k)
        /\ phase = "device" => DeviceGetsAll
        /\ phase = "run" => /\ Split => DeviceGotAll
                            /\ ~Split => DeviceGetsAll
                            /\ FileGetsAll
    BY <2>1 DEF Delivered, Playing
  <2>3. ASSUME NEW k \in 1..(at' - 1), progs'[k] # None PROVE GotAll(k)'
    <3>1. k \in 1..MaxScripts /\ k # at /\ k \in 1..(at - 1)
      BY <1>1, ConstantTypes
    <3>2. QED
      BY <1>4, <2>2, <2>3, <3>1 DEF GotAll
  <2>4. device[at] \in Nat /\ file.data[at] \in Nat
    BY <1>1, <1>2 DEF Written
  <2>5. /\ device[at] + RunLen + (gen - RunLen) = device[at] + gen
        /\ file.data[at] + RunLen + (gen - RunLen) = file.data[at] + gen
    <3>1. PICK x \in Nat, y \in Nat, r \in Nat, g \in Nat :
            x = device[at] /\ y = file.data[at] /\ r = RunLen /\ g = gen
      BY <1>1, <2>4
    <3>2. x + r + (g - r) = x + g /\ y + r + (g - r) = y + g
      OBVIOUS
    <3>3. QED
      BY <3>1, <3>2
  <2>6. Took(device, device', d) => device'[at] + gen' = device[at] + gen
    BY <1>4, <2>1, <2>5
  <2>7. Took(file.data, file'.data, f) => file'.data[at] + gen' = file.data[at] + gen
    BY <1>4, <2>1, <2>5
  <2>8. phase = "device" => DeviceGetsAll'
    BY <2>2, <2>6 DEF DeviceGetsAll
  <2>9. ASSUME phase = "run", Split PROVE DeviceGotAll'
    BY <2>2, <2>9 DEF DeviceGotAll, ToDevice
  <2>10. ASSUME phase = "run", ~Split PROVE DeviceGetsAll'
    BY <2>2, <2>6, <2>10 DEF DeviceGetsAll, ToDevice
  <2>11. ASSUME phase = "run" PROVE FileGetsAll'
    <3>1. out.wf \in {"none", "open", "closed"}
      BY DEF Types, OutData
    <3>2. QED
      BY <2>2, <2>7, <2>11, <3>1 DEF FileGetsAll, ToFile
  <2>12. Split' = Split
    BY DEF Split
  <2>13. QED
    BY <2>3, <2>8, <2>9, <2>10, <2>11, <2>12
<1>8. SinksGetAllPrograms'
  BY DEF SinksGetAllPrograms
<1>9. phase' \in {"device", "run"}
  OBVIOUS
<1>10. QED
  BY <1>5, <1>6, <1>7, <1>8, <1>9 DEF Delivered

LEMMA DeliveredKept ==
  ASSUME Types, SetUp, Delivered, [PlayerNext]_playerVars
  PROVE  Delivered'
<1>0. file \in FileData /\ out \in OutData
  BY DEF Types
<1>1. CASE phase \in SettingUp /\ PlayerNext
  BY <1>1, DeliveredAtFirst
<1>2. CASE SkipNull
  <2>1. /\ phase = "play" /\ phase' = "play" /\ at' = at + 1 /\ progs[at] = None
        /\ UNCHANGED <<flags, srate, progs, out, device, file, failed>>
    BY <1>2 DEF SkipNull, local_, history
  <2>2. QED
    BY <2>1, DeliveredNext DEF Playing
<1>3. ASSUME Undefined PROVE Delivered'
  <2>1. phase' = "undefined"
    BY <1>3 DEF Undefined
  <2>2. QED
    BY <2>1 DEF Delivered, SettingUp, Playing, SinksGetAllPrograms
<1>4. CASE BeginOutput
  <2>1. CASE out.ad # None /\ ~out.ad_open
    BY <1>3, <1>4, <2>1 DEF BeginOutput
  <2>2. CASE ~(out.ad # None /\ ~out.ad_open)
    <3>1. CASE OutputFails
      <4>1. /\ phase = "play" /\ phase' = "play" /\ at' = at + 1 /\ failed' # {}
            /\ UNCHANGED <<flags, srate, progs, out, device, file>>
        BY <1>4, <2>2, <3>1 DEF BeginOutput, OutputFails
      <4>2. QED
        BY <4>1, DeliveredNext DEF Playing
    <3>2. CASE ~OutputFails
      BY <1>4, <2>2, <3>2, DeliveredBegin
    <3>3. QED
      BY <3>1, <3>2
  <2>3. QED
    BY <2>1, <2>2
<1>5. CASE RunForDevice
  <2>1. PICK d \in Nat, bad \in SUBSET {"device", "file"} :
            /\ Took(device, device', d) /\ gen' = gen - RunLen
            /\ bad = {} => d = RunLen
            /\ failed' = failed \cup bad
    BY <1>5, RunForDeviceIs
  <2>2. phase = "device" /\ UNCHANGED <<phase, flags, srate, progs, at, out, file>>
    BY <1>5 DEF RunForDevice
  <2>3. RunLen \in Nat
    BY RunLenIs DEF Types
  <2>4. QED
    BY <2>1, <2>2, <2>3, DeliveredTurn
<1>6. CASE NewGenerator
  <2>1. phase = "device" /\ RunLen = 0 /\ UNCHANGED <<flags, srate, progs, out, device, file>>
    BY <1>6 DEF NewGenerator
  <2>2. CASE OutputFails
    <3>1. phase' = "play" /\ at' = at + 1 /\ failed' # {}
      BY <2>2 DEF OutputFails
    <3>2. QED
      BY <2>1, <3>1, DeliveredNext DEF Playing
  <2>3. CASE ~OutputFails
    <3>1. gen' = progs[at] * srate /\ phase' = "run" /\ UNCHANGED <<at, failed>>
      BY <1>6, <2>3 DEF NewGenerator
    <3>2. Split /\ Split'
      BY <2>1 DEF SetUp, Split
    <3>3. failed = {} => DeviceGotAll
      BY <2>1, GotWhenOver
    <3>4. failed' = {} => DeviceGotAll'
      BY <2>1, <3>1, <3>3 DEF DeviceGotAll
    <3>5. FileGetsAll'
      <4>1. at \in 1..Len(progs) /\ srate \in Nat
        BY <2>1 DEF Types
      <4>2. progs[at] \in Nat
        BY <2>1, <4>1, ProgramTypes DEF Types
      <4>3. PICK n \in Nat : n = progs[at] * srate
        BY <4>1, <4>2
      <4>4. file.data[at] = 0 /\ 0 + n = n
        BY <2>1 DEF Delivered
      <4>5. QED
        BY <2>1, <3>1, <4>3, <4>4 DEF FileGetsAll
    <3>6. \A k \in 1..MaxScripts : k > at => NothingYet(k)'
      BY <2>1 DEF Delivered, NothingYet, Playing
    <3>7. ASSUME failed' = {}, "check" \notin flags', NEW k \in 1..(at' - 1), progs'[k] # None
          PROVE  GotAll(k)'
      <4>1. GotAll(k)
        BY <2>1, <3>1, <3>7 DEF Delivered, Playing
      <4>2. QED
        BY <2>1, <4>1 DEF GotAll
    <3>8. SinksGetAllPrograms'
      BY <3>1 DEF SinksGetAllPrograms
    <3>9. QED
      BY <3>1, <3>2, <3>4, <3>5, <3>6, <3>7, <3>8 DEF Delivered
  <2>4. QED
    BY <2>2, <2>3
<1>7. CASE RunOutput
  <2>1. CASE out.buf /\ out.wf # "closed"
    <3>1. PICK d, f, bad : RunTurn(d, f, bad)
      BY <1>7, <2>1, RunOutputIs
    <3>2. phase = "run"
      BY <1>7 DEF RunOutput
    <3>3. QED
      BY <3>1, <3>2, DeliveredTurn DEF RunTurn
  <2>2. CASE ~(out.buf /\ out.wf # "closed")
    BY <1>3, <1>7, <2>2 DEF RunOutput
  <2>3. QED
    BY <2>1, <2>2
<1>8. CASE EndOutput
  <2>1. /\ phase = "done" \/ (phase = "run" /\ RunLen = 0)
        /\ phase' = "play" /\ at' = at + 1
        /\ UNCHANGED <<flags, srate, progs, out, device, file, failed>>
    BY <1>8 DEF EndOutput, OutputOver, history
  <2>2. failed' = {} /\ "check" \notin flags => failed = {} /\ (progs[at] # None => GotAll(at))
    BY <2>1, GotWhenOver DEF SetUp
  <2>3. QED
    BY <2>1, <2>2, DeliveredNext DEF Playing
<1>9. CASE EndPlay
  <2>1. CASE out.wf = "closed" \/ (out.ad # None /\ ~out.ad_open)
    BY <1>3, <1>9, <2>1 DEF EndPlay
  <2>2. CASE ~(out.wf = "closed" \/ (out.ad # None /\ ~out.ad_open))
    <3>1. /\ phase = "play" /\ at > Len(progs) /\ phase' = "exited" /\ fini_Output(out)
          /\ UNCHANGED <<flags, srate, progs, at, device>>
      BY <1>9, <2>2 DEF EndPlay, Exit
    <3>2. failed' = {} => failed = {}
      BY <1>9, <2>2 DEF EndPlay
    <3>3. out'.ad = out.ad /\ (out'.wf = "none" <=> out.wf = "none") /\ file'.data = file.data
      BY <1>0, <3>1, FiniIs
    <3>4. ASSUME failed' = {}, "check" \notin flags', NEW k \in DOMAIN progs', progs'[k] # None
          PROVE  GotAll(k)'
      <4>1. Len(progs) \in Nat /\ DOMAIN progs = 1..Len(progs) /\ at \in Nat
        BY DEF Types
      <4>2. k \in 1..(at - 1)
        BY <3>1, <3>4, <4>1
      <4>3. GotAll(k)
        BY <3>1, <3>2, <3>4, <4>2 DEF Delivered, Playing
      <4>4. QED
        BY <3>1, <3>3, <4>3, GotStays
    <3>5. SinksGetAllPrograms'
      BY <3>4 DEF SinksGetAllPrograms, GotAll
    <3>6. QED
      BY <3>1, <3>5 DEF Delivered, SettingUp, Playing
  <2>3. QED
    BY <2>1, <2>2
<1>10. CASE UNCHANGED playerVars
  BY <1>10
  DEF playerVars, local_, history, Delivered, NothingYet, GotAll, DeviceGotAll, DeviceGetsAll,
      FileGetsAll, Split, SinksGetAllPrograms
<1>11. CASE phase \notin SettingUp /\ PlayerNext
  <2>1. ~ \E c \in Options : parse_option(c)
    BY <1>11 DEF parse_option, SettingUp
  <2>2. ~(ScriptArgs \/ BuildScript \/ Built \/ NoAudioDev)
    BY <1>11 DEF ScriptArgs, BuildScript, Built, NoAudioDev, SettingUp
  <2>3. ~(open_linux \/ open_oss \/ open_sndio \/ CreateWAVFile \/ AllocBuffer)
    BY <1>11 DEF open_linux, open_oss, open_sndio, CreateWAVFile, AllocBuffer, SettingUp
  <2>4. QED
    BY <1>2, <1>4, <1>5, <1>6, <1>7, <1>8, <1>9, <1>11, <2>1, <2>2, <2>3 DEF PlayerNext
<1>12. QED
  BY <1>1, <1>10, <1>11

\* Without failures, each program that was built has been heard whole and once
\* at the rate of the device, and written whole and once at that of the file,
\* also where both are used and their rates differ.
THEOREM SinksGetAll == PlayerSpec => []SinksGetAllPrograms
<1> DEFINE Inv == Types /\ FlagsTell /\ SetUp /\ Delivered
<1>1. PlayerInit => Inv
  <2>1. ASSUME PlayerInit PROVE FlagsTell /\ Delivered
    <3>1. flags = {} /\ Range(given) = {}
      BY <2>1 DEF PlayerInit, Range
    <3>2. FlagsTell
      BY <3>1 DEF FlagsTell
    <3>3. /\ phase = "args" /\ device = [k \in 1..MaxScripts |-> 0]
          /\ file.data = [k \in 1..MaxScripts |-> 0]
      BY <2>1 DEF PlayerInit
    <3>4. QED
      BY <3>2, <3>3 DEF Delivered, NothingYet, SinksGetAllPrograms, Playing
  <2>2. QED
    BY <2>1, InitTypes, SetUpInits
<1>2. Inv /\ [PlayerNext]_playerVars => Inv'
  BY TypesKept, FlagsTellKept, SetUpKept, DeliveredKept
<1>3. Inv => SinksGetAllPrograms
  BY DEF Delivered
<1>4. QED
  BY <1>1, <1>2, <1>3, PTL DEF PlayerSpec

-----------------------------------------------------------------------------
\* Types are right: an open device has a rate, what is played is a program, and
\* the exit status is there when, and only when, the program has ended.
THEOREM PlayerTypes == PlayerSpec => []PlayerTypeOK
<1> DEFINE Inv == Types /\ FlagsTell /\ SetUp /\ Handles(out)
<1>1. PlayerInit => Inv
  <2>1. ASSUME PlayerInit PROVE FlagsTell /\ Handles(out)
    <3>1. flags = {} /\ Range(given) = {} /\ out.ad = None /\ ~out.ad_open
          /\ out.dev.handles = {}
      BY <2>1 DEF PlayerInit, Range
    <3>2. QED
      BY <3>1 DEF FlagsTell, Handles
  <2>2. QED
    BY <2>1, InitTypes, SetUpInits
<1>2. Inv /\ [PlayerNext]_playerVars => Inv'
  BY TypesKept, FlagsTellKept, SetUpKept, HandlesKept
<1>3. Inv => PlayerTypeOK
  <2>1. SUFFICES ASSUME Inv PROVE PlayerTypeOK
    OBVIOUS
  <2>2. DOMAIN progs = 1..Len(progs) /\ Len(progs) \in Nat
    BY <2>1 DEF Types
  <2>3. phase \in {"device", "run", "done"} => at \in DOMAIN progs /\ progs[at] # None
    BY <2>1, <2>2 DEF Types
  <2>4. QED
    BY <2>1, <2>3 DEF Types, Handles, OutData, Phases, SettingUp, Playing, PlayerTypeOK
<1>4. QED
  BY <1>1, <1>2, <1>3, PTL DEF PlayerSpec

================================================================================
