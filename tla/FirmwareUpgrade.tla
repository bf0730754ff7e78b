--------------------------- MODULE FirmwareUpgrade ---------------------------
\* The upgrade over the VTMS server (tms_tms.c): TmsRemoteUpgrade connects,
\* authenticates, fetches the task list, downloads its files in ranges and can
\* resume after a break, notifies the server and then installs what it has.
\* The download's progress is kept in the file _tms_dinfo_ (here `saved`), a
\* copy of TmsTrade (`trade`), next to the files themselves (`disk`).
\*
\* A range of EXFCONTENT_LEN bytes is one piece of content; a file is the
\* sequence of its pieces and its MD5 is that sequence, so two files have one
\* MD5 exactly when they are equal.  The flash, the server and the installer
\* of the operating system are external.  Power can fail between any two
\* writes to the flash; a write or a deletion can fail, and where the code does
\* not look at the result it goes on with the flash as it was.
EXTENDS Naturals, Sequences, FiniteSets

CONSTANTS Tasks,            \* the task lists the server may publish
          MaxSessions,      \* bound: upgrades the user starts
          MaxPublications,  \* bound: task lists published after the first
          MaxCuts,          \* bound: power failures
          MaxExpiries       \* bound: tokens the server lets expire

Kinds == {"PF", "WB", "UF", "DD", "APP"}

\* What the server says of a file.  base: the firmware a difference applies to
Desc == UNION {{t[i] : i \in DOMAIN t} : t \in Tasks}

ASSUME TasksAssumption ==
    /\ Tasks # {}
    /\ Tasks \subseteq Seq([name : STRING, kind : Kinds, ver : Nat, base : Nat,
                            size : Nat, build : Nat, zip : BOOLEAN])
\* The device knows files by their names alone (TMS_FILE_DIR): the server gives
\* the files of a list different ones, and a parameter file's to no other file.
\* Whether a file is a zip is in its name (tms_filezipcheck).
ASSUME FilesAssumption ==
    /\ \A t \in Tasks : \A i, j \in DOMAIN t : t[i].name = t[j].name => i = j
    /\ \A d, e \in Desc :
          d.name = e.name /\ d.kind = "PF" => e.kind = "PF" /\ e.zip = d.zip
ASSUME BoundsAssumption ==
    {MaxSessions, MaxPublications, MaxCuts, MaxExpiries} \subseteq Nat

Bad == <<0, 0, 0>>          \* a piece damaged on the way
Hole == <<0, 0, 1>>         \* never written
Content(d) == [i \in 1..d.size |-> <<d.ver, d.build, i>>]
OldParameters == <<<<1, 0, 1>>>>

Paths == {d.name : d \in Desc} \X {"", ".bak", ".bin", "/ext/"}
LastOf(a, b) == IF a < b THEN b ELSE a

VARIABLES
    task,       \* the list the server hands out now
    expired,    \* the server's: the last token that is no longer good
    notified,   \* what the server was told: <<name, ver, taskResult>>
    cuts, published, sessions,                 \* bounds
    lost,       \* history: paths emptied while the status file counts on them
    dropped,    \* history: parameter files deleted and not replaced since
    disk,       \* path -> pieces; <<>>: no such file
    saved,      \* _DOWN_STATUS_, or NoInfo
    device,     \* the versions that run: APP, UF, DD, WB
    auth,       \* GtermAuthFlag
    token,      \* G_token
    pc,         \* where the menu thread is in TmsRemoteUpgrade
    trade,      \* TmsTrade in RAM
    resent,     \* flagresend of the file being downloaded
    ret,        \* Ret of Tms_DownloadUrlFilesOneByOne, junk until a piece came
    todo,       \* indices still to be notified, installed or deleted, in order
    result      \* what the last upgrade returned

server == <<task, published, expired>>
flash == <<disk, saved, device>>
login == <<auth, token>>
thread == <<pc, trade, resent, ret, todo, result>>
marks == <<lost, dropped>>
vars == <<task, expired, notified, cuts, published, sessions, lost, dropped,
          disk, saved, device, auth, token, pc, trade, resent, ret, todo, result>>

\* A file of TmsTrade: STATUS_DLUNCOMPLETE, STATUS_DLCOMPLETE or STATUS_UPDATE
Entry(d) == [d |-> d, pos |-> 0, st |-> "uncomplete", out |-> FALSE]
NoTrade == [kind |-> "task", files |-> <<>>, cur |-> 1, ctx |-> <<>>]
NoInfo == [NoTrade EXCEPT !.kind = "none"]

\* Tms_GetFileSize, Tms_WriteFile, Tms_DelFile: a parameter file is downloaded
\* beside the one in use.  TmsUpdate_Api renames what it unzips.
DownloadPath(d) == <<d.name, IF d.kind = "PF" THEN ".bak" ELSE "">>
ImagePath(e) == <<e.d.name, IF e.out THEN ".bin" ELSE "">>

\* WriteFile_Api writes at an offset and leaves the rest of the file alone
Patch(s, pos, piece) ==
    [i \in 1..LastOf(Len(s), pos + 1) |->
        IF i = pos + 1 THEN piece ELSE IF i <= Len(s) THEN s[i] ELSE Hole]

Pieces == {Bad, Hole, OldParameters[1]}
              \cup UNION {{Content(d)[i] : i \in 1..d.size} : d \in Desc}

Files == [d : Desc, pos : Nat, st : {"uncomplete", "complete", "update"}, out : BOOLEAN]
Trades(kinds) == [kind : kinds, files : Seq(Files), cur : Nat \ {0}, ctx : Seq(Pieces)]

\* The type invariant.
TypeOK ==
    /\ task \in Tasks /\ expired \in 0..MaxExpiries
    /\ pc \in {"idle", "connect", "auth", "info", "task", "wipe", "download", "commit",
               "reconnect", "discard", "uncommit", "notify", "told", "update", "install",
               "rename", "unzip", "clear", "record", "mark", "remove", "scrap", "finish"}
    /\ disk \in [Paths -> Seq(Pieces)]
    /\ saved \in Trades({"none", "task", "update"}) /\ trade \in Trades({"task", "update"})
    /\ \A s \in {saved, trade} :
          /\ s.cur <= Len(s.files) + 1
          /\ \A i \in DOMAIN s.files : s.files[i].pos <= s.files[i].d.size
    /\ todo \in Seq(Nat)
    /\ device \in [Kinds \ {"PF"} -> Nat]
    /\ resent \in BOOLEAN /\ auth \in BOOLEAN /\ token \in 0..(MaxExpiries + 1)
    /\ ret \in {"zero", "junk"} /\ result \in {"none", "ok", "failed"}

\* A device that runs version 1 of everything and has old parameters
Init ==
    /\ task \in Tasks /\ expired = 0 /\ notified = {} /\ cuts = 0 /\ published = 0
    /\ sessions = 0 /\ lost = {} /\ dropped = {}
    /\ disk = [p \in Paths |->
                  IF \E d \in Desc : /\ d.name = p[1] /\ d.kind = "PF"
                                     /\ p[2] = (IF d.zip THEN "/ext/" ELSE "")
                  THEN OldParameters ELSE <<>>]
    /\ saved = NoInfo
    /\ device = [k \in Kinds \ {"PF"} |-> 1] /\ auth = FALSE /\ token = 0
    /\ pc = "idle" /\ trade = NoTrade /\ resent = FALSE /\ ret = "zero"
    /\ todo = <<>> /\ result = "none"

-----------------------------------------------------------------------------
\* The flash where nobody looks at the result

DeleteFile(p) ==
    \/ disk' = [disk EXCEPT ![p] = <<>>] /\ lost' = lost \cup {p}
    \/ UNCHANGED <<disk, lost>>

WriteStatus(t) == saved' \in {saved, t}

\* _DOWN_STATUS_ goes, and with it all it counted on; or it stays, although
\* nobody will look after the files it lists
DeleteStatus ==
    \/ saved' = NoInfo /\ lost' = {}
    \/ /\ saved' = saved
       /\ lost' = lost \cup {DownloadPath(saved.files[i].d) : i \in DOMAIN saved.files}

-----------------------------------------------------------------------------
\* The session

\* Every error ends the upgrade: the connection is closed, the buffers freed.
\* TmsTrade is not looked at again before it is zeroed.
End(r) ==
    pc' = "idle" /\ result' = r /\ trade' = NoTrade /\ UNCHANGED <<resent, ret, todo>>
Fail == End("failed")

\* TmsRemoteUpgrade: the folder of the files must be there
Start ==
    /\ pc = "idle" /\ sessions < MaxSessions
    /\ sessions' = sessions + 1
    /\ \/ pc' = "connect" /\ result' = "none"
       \/ pc' = "idle" /\ result' = "failed"
    /\ UNCHANGED <<server, notified, cuts, marks, flash, login, trade, resent, ret, todo>>

\* TmsConnectServer, TmsParamSet_Api: TmsTrade is zeroed first
Connect ==
    /\ pc = "connect"
    /\ \/ pc' = (IF auth THEN "task" ELSE "auth") /\ trade' = NoTrade
          /\ UNCHANGED <<resent, ret, todo, result>>
       \/ Fail
    /\ UNCHANGED <<server, notified, cuts, sessions, marks, flash, login>>

\* Tms_CreatePacket.  What the server's answer depends on is kept of a request.
Packet(type, tok, item) == [type |-> type, token |-> tok, item |-> item]
AuthPacket == Packet("deviceAuthentication", expired + 1, <<>>)
InfoPacket == Packet("reportDeviceInfo", token, <<>>)
TaskPacket == Packet("getDeviceTask", token, <<>>)
NotifyPacket(e) ==
    Packet("taskResultNotify", token,
           <<e.d.name, e.d.ver, IF e.st = "complete" THEN 0 ELSE 2>>)

\* The server's code for a request
Code(r) == IF r.token > expired THEN "00" ELSE "12"

\* Tms_RecvPacket: an answer of exactly the announced length, or none
Received(r) == {"none", "HTTP error", Code(r)}

\* Tms_HttpGetTranResult, Tms_ResolveHTTPPacket
HttpAccepted(answer) == answer \notin {"none", "HTTP error"}

\* Tms_UnPackPacket: of the terminal's answers only code 00 counts
Unpacked(answer) == answer = "00"

\* Tms_SendRecvData, Tms_CreateTxdRxdResolve: does the request r succeed?
Exchange(r, ok) ==
    \E answer \in Received(r) : ok = (HttpAccepted(answer) /\ Unpacked(answer))

\* TmsDownload_Api, Tms_DeviceAuth, Tms_UnPackPacket: once per power-up
DeviceAuth ==
    /\ pc = "auth"
    /\ \/ /\ Exchange(AuthPacket, TRUE)
          /\ auth' = TRUE /\ token' = AuthPacket.token /\ pc' = "info"
          /\ UNCHANGED <<trade, resent, ret, todo, result>>
       \/ Exchange(AuthPacket, FALSE) /\ Fail /\ UNCHANGED login
    /\ UNCHANGED <<server, notified, cuts, sessions, marks, flash>>

\* Tms_TermInfoUpload: its failure leaves the terminal authenticated
TermInfoUpload ==
    /\ pc = "info"
    /\ \/ /\ Exchange(InfoPacket, TRUE) /\ pc' = "task"
          /\ UNCHANGED <<trade, resent, ret, todo, result>>
       \/ Exchange(InfoPacket, FALSE) /\ Fail
    /\ UNCHANGED <<server, notified, cuts, sessions, marks, flash, login>>

\* Tms_CheckNeedDownFile, CompareFWVersion, CompareVosVersion: only what is
\* newer than what runs; a firmware difference must start from what runs
NeedDownFile(d) ==
    \/ d.kind = "PF"
    \/ d.kind = "UF" /\ d.base = device["UF"] /\ d.ver > device["UF"]
    \/ d.kind \in {"APP", "DD", "WB"} /\ d.ver > device[d.kind]

\* Tms_CompareVersions: name, type, version and size, not the MD5 or the task
SameFile(e, f) ==
    /\ e.d.name = f.d.name /\ e.d.kind = f.d.kind /\ e.d.ver = f.d.ver
    /\ e.d.size = f.d.size /\ e.d.zip = f.d.zip /\ e.out = f.out

SameFiles(s, t) == Len(s) = Len(t) /\ \A i \in DOMAIN s : SameFile(s[i], t[i])

\* Tms_DelAllDownloadInfo of the list s: file by file up to the current one, and
\* then the status file.  Of a parameter file it deletes the one in use and not
\* the download (the suffix goes into an empty string).
Doomed(s) == [k \in 1..(IF s.cur < Len(s.files) THEN s.cur ELSE Len(s.files)) |-> k]

\* The numbers of a set in order, those of a lower rank first
Ordered(I, rank) ==
    {s \in [1..Cardinality(I) -> I] :
        \A a, b \in DOMAIN s :
            a < b => \/ rank[s[a]] < rank[s[b]]
                     \/ rank[s[a]] = rank[s[b]] /\ s[a] < s[b]}

NeededFiles ==
    Ordered({i \in DOMAIN task : NeedDownFile(task[i])}, [i \in DOMAIN task |-> 0])

\* Tms_UnsolveGetTermTask, Tms_RequestTermTask, Tms_CommProcess
RequestTask ==
    /\ pc = "task"
    /\ \E needed \in NeededFiles :
       LET fresh == [i \in DOMAIN needed |-> Entry(task[needed[i]])]
       IN  \/ Exchange(TaskPacket, FALSE) /\ Fail
           \/ Exchange(TaskPacket, TRUE) /\ needed = <<>> /\ Fail
           \/ /\ Exchange(TaskPacket, TRUE) /\ needed # <<>>
              /\ saved # NoInfo /\ SameFiles(saved.files, fresh)
              /\ trade' = saved
              /\ pc' = (IF saved.kind = "update" THEN "update" ELSE "download")
              /\ resent' = FALSE /\ ret' \in {"zero", "junk"}
              /\ UNCHANGED <<todo, result>>
           \/ /\ Exchange(TaskPacket, TRUE) /\ needed # <<>>
              /\ \/ saved = NoInfo /\ pc' = "download" /\ UNCHANGED todo
                 \/ /\ saved # NoInfo /\ ~SameFiles(saved.files, fresh)
                    /\ pc' = "wipe" /\ todo' = Doomed(saved)
              /\ trade' = [NoTrade EXCEPT !.files = fresh]
              /\ resent' = FALSE /\ ret' \in {"zero", "junk"}
              /\ UNCHANGED result
    /\ UNCHANGED <<server, notified, cuts, sessions, marks, flash, login>>

\* Tms_DelAllDownloadInfo, for another download or after a failed installation
Doom == IF pc = "wipe" THEN saved.files ELSE trade.files
DelDownload ==
    /\ pc \in {"wipe", "scrap"} /\ todo # <<>>
    /\ DeleteFile(ImagePath(Doom[Head(todo)]))
    /\ dropped' = (IF Doom[Head(todo)].d.kind = "PF" /\ disk' # disk
                   THEN dropped \cup {Doom[Head(todo)].d.name} ELSE dropped)
    /\ todo' = Tail(todo)
    /\ UNCHANGED <<server, notified, cuts, sessions, saved, device, login,
                   pc, trade, resent, ret, result>>

DelDownStatus ==
    /\ pc \in {"wipe", "scrap"} /\ todo = <<>>
    /\ DeleteStatus
    /\ \/ /\ pc = "wipe" /\ pc' = "download"
          /\ UNCHANGED <<trade, resent, ret, todo, result>>
       \/ pc = "scrap" /\ Fail
    /\ UNCHANGED <<server, notified, cuts, sessions, dropped, disk, device, login>>

-----------------------------------------------------------------------------
\* Tms_DownloadUrlFilesOneByOne

Current == trade.files[trade.cur]
Downloading ==
    /\ pc = "download" /\ trade.cur <= Len(trade.files)
    /\ Current.st = "uncomplete" /\ Current.pos < Current.d.size

\* What is behind a URL now: the task's file of that name and version
Served(d) ==
    IF \E i \in DOMAIN task : task[i].name = d.name /\ task[i].ver = d.ver
    THEN CHOOSE x \in {task[i] : i \in DOMAIN task} : x.name = d.name /\ x.ver = d.ver
    ELSE d

\* Bad stands for whatever else arrives as an answer: a damaged or shorter
\* piece, or the late answer of a request that was sent again.
Answers(e) ==
    {Bad} \cup {Content(Served(e.d))[i] : i \in {e.pos + 1} \cap (1..Served(e.d).size)}

\* The MD5 starts anew with a file and goes on with the saved one in the middle
ContextKept(e) == trade.ctx

Context(e) == IF e.pos = 0 THEN <<>> ELSE trade.ctx

Md5SizeOnly(ctx, d) == Len(ctx) = d.size

Md5Matches(ctx, d) == ctx = Content(d)

\* One answered request: Tms_WriteFile writes the piece and extends the MD5;
\* after the last piece it compares the MD5 and drops the file if it differs.
FetchPiece ==
    /\ Downloading
    /\ \E piece \in Answers(Current) :
          LET e   == Current
              ctx == Append(Context(e), piece)
              all == e.pos + 1 = e.d.size
              ok  == Md5Matches(ctx, e.d)
          IN  /\ disk' = [disk EXCEPT ![DownloadPath(e.d)] = Patch(@, e.pos, piece)]
              /\ trade' = [trade EXCEPT
                    !.ctx = ctx,
                    !.files[trade.cur].pos = IF all /\ ~ok THEN 0 ELSE e.pos + 1,
                    !.files[trade.cur].st = IF all /\ ok THEN "complete" ELSE @,
                    !.cur = IF all /\ ok THEN @ + 1 ELSE @]
              /\ pc' = IF all /\ ~ok THEN "discard" ELSE "commit"
    /\ resent' = FALSE
    /\ UNCHANGED <<server, notified, cuts, sessions, marks, saved, device, login,
                   ret, todo, result>>

\* An answer without a body counts as one: nothing is written, the repetition is
\* granted anew and the loop comes back for the same piece
EmptyAnswer ==
    /\ Downloading
    /\ resent' = FALSE /\ ret' = "zero" /\ pc' = "reconnect"
    /\ UNCHANGED <<server, notified, cuts, sessions, marks, flash, login,
                   trade, todo, result>>

\* No answer: the request is sent once more, then the session ends.  Nor is
\* there one after a failed send, an HTTP error or a failed write.
NoAnswerAgain ==
    /\ Downloading
    /\ \/ resent' = ~resent /\ UNCHANGED <<pc, trade, ret, todo, result>>
       \/ Fail
    /\ UNCHANGED <<server, notified, cuts, sessions, marks, flash, login>>

NoAnswer ==
    /\ Downloading
    /\ \/ ~resent /\ resent' = TRUE /\ UNCHANGED <<pc, trade, ret, todo, result>>
       \/ Fail
    /\ UNCHANGED <<server, notified, cuts, sessions, marks, flash, login>>

\* The progress is written after the piece
CommitPiece ==
    /\ pc = "commit"
    /\ \/ /\ saved' = trade /\ ret' = "zero" /\ pc' = "reconnect"
          /\ UNCHANGED <<trade, resent, todo, result>>
       \/ saved' = saved /\ Fail
    /\ UNCHANGED <<server, notified, cuts, sessions, marks, disk, device, login>>

\* Tms_NeedReConnect: the next request needs a new connection if the answer said
\* "Connection: close"
Reconnect ==
    /\ pc = "reconnect"
    /\ \/ pc' = "download" /\ UNCHANGED <<trade, resent, ret, todo, result>>
       \/ Fail
    /\ UNCHANGED <<server, notified, cuts, sessions, marks, flash, login>>

\* MD5 error: the file goes first, then the progress
DiscardParameters ==
    /\ pc = "discard"
    /\ DeleteFile(<<Current.d.name, "">>)
    /\ pc' = "uncommit"
    /\ UNCHANGED <<server, notified, cuts, sessions, dropped, saved, device, login,
                   trade, resent, ret, todo, result>>

Discard ==
    /\ pc = "discard"
    /\ DeleteFile(DownloadPath(Current.d))
    /\ pc' = "uncommit"
    /\ UNCHANGED <<server, notified, cuts, sessions, dropped, saved, device, login,
                   trade, resent, ret, todo, result>>

Uncommit ==
    /\ pc = "uncommit"
    /\ \/ saved' = trade /\ lost' = lost \ {DownloadPath(Current.d)}
       \/ UNCHANGED <<saved, lost>>
    /\ Fail
    /\ UNCHANGED <<server, notified, cuts, sessions, dropped, disk, device, login>>

\* The loop is over.  Ret is uninitialised when it was never entered, all files
\* having been there already.  An empty file is never complete: it ends the loop
\* only with junk in Ret, otherwise the loop spins and no step is possible.
Spinning == pc = "download" /\ trade.cur <= Len(trade.files) /\ Current.d.size = 0
LeaveDownload ==
    /\ pc = "download"
    /\ \/ /\ trade.cur > Len(trade.files) /\ ret = "zero"
          /\ pc' = "notify" /\ todo' = <<1>>
          /\ UNCHANGED <<trade, resent, ret, result>>
       \/ (trade.cur > Len(trade.files) \/ Spinning) /\ ret = "junk" /\ Fail
    /\ UNCHANGED <<server, notified, cuts, sessions, marks, flash, login>>

\* Tms_Notify: one request per file once all are complete
Notify ==
    /\ pc = "notify"
    /\ LET i == todo[1]
           r == NotifyPacket(trade.files[i])
       IN  \/ /\ Code(r) = "00" /\ notified' = notified \cup {r.item}
              /\ \/ /\ Exchange(r, TRUE)
                    /\ pc' = (IF i = Len(trade.files) THEN "told" ELSE pc)
                    /\ todo' = (IF i = Len(trade.files) THEN <<>> ELSE <<i + 1>>)
                    /\ UNCHANGED <<trade, resent, ret, result>>
                 \/ Exchange(r, FALSE) /\ Fail
           \/ Exchange(r, FALSE) /\ Fail /\ notified' = notified
    /\ UNCHANGED <<server, cuts, sessions, marks, flash, login>>

\* Whether the status file got the new type is not asked
Told ==
    /\ pc = "told"
    /\ WriteStatus([trade EXCEPT !.kind = "update"]) /\ pc' = "update"
    /\ UNCHANGED <<server, notified, cuts, sessions, marks, disk, device, login,
                   trade, resent, ret, todo, result>>

-----------------------------------------------------------------------------
\* TmsUpdate_Api.  It works on its own copy of the status file, here `trade`.

\* Parameters, then the WiFi firmware, then firmware and libraries, then apps
Rank == [k \in Kinds |-> CASE k = "PF" -> 1 [] k = "WB" -> 2 [] k \in {"UF", "DD"} -> 3
                            [] k = "APP" -> 4]
InstallOrder(files) ==
    Ordered({i \in DOMAIN files : files[i].st = "complete"},
            [i \in DOMAIN files |-> Rank[files[i].d.kind]])

\* It finds the file, and no download in it that is not complete
BeginUpdate ==
    /\ pc = "update"
    /\ trade' = saved
    /\ todo' \in InstallOrder(saved.files)
    /\ pc' = IF todo' = <<>> THEN "finish" ELSE "install"
    /\ UNCHANGED <<server, notified, cuts, sessions, marks, flash, login,
                   resent, ret, result>>

Next1 == trade.files[todo[1]]
Proceed ==
    /\ todo' = Tail(todo)
    /\ pc' = (IF Len(todo) = 1 THEN "finish" ELSE "install")
    /\ UNCHANGED <<resent, ret, result>>

\* An installation failed: the whole download is thrown away, the files of
\* `first` before the others
GiveUp(first) ==
    /\ pc' = "scrap" /\ todo' = first \o Doomed(trade)
    /\ UNCHANGED <<flash, trade, resent, ret, result>>

\* A parameter file: delete the old one, rename, unzip, delete the zip, mark
DeleteOld ==
    /\ pc = "install" /\ Next1.d.kind = "PF"
    /\ DeleteFile(<<Next1.d.name, "">>)
    /\ pc' = "rename"
    /\ UNCHANGED <<server, notified, cuts, sessions, dropped, saved, device, login,
                   trade, resent, ret, todo, result>>

RenameNew ==
    /\ pc = "rename"
    /\ LET old == <<Next1.d.name, "">>
           new == <<Next1.d.name, ".bak">>
       IN  \/ /\ disk[new] # <<>>
              /\ disk' = [disk EXCEPT ![old] = disk[new], ![new] = <<>>]
              /\ lost' = lost \cup {new} /\ dropped' = dropped \ {Next1.d.name}
              /\ pc' = (IF Next1.d.zip THEN "unzip" ELSE "mark")
              /\ UNCHANGED <<saved, device, trade, resent, ret, todo, result>>
           \/ /\ GiveUp(<<>>)
              /\ lost' = lost /\ dropped' = dropped \cup {Next1.d.name}
    /\ UNCHANGED <<server, notified, cuts, sessions, login>>

UnzipParameters ==
    /\ pc = "unzip"
    /\ \/ /\ disk' = [disk EXCEPT ![<<Next1.d.name, "/ext/">>] = disk[<<Next1.d.name, "">>]]
          /\ pc' = "clear"
          /\ UNCHANGED <<saved, device, trade, resent, ret, todo, result>>
       \/ GiveUp(<<todo[1]>>)
    /\ UNCHANGED <<server, notified, cuts, sessions, marks, login>>

MarkUpdated ==
    /\ pc = "mark"
    /\ trade' = [trade EXCEPT !.files[todo[1]].st = "update"]
    /\ WriteStatus(trade')
    /\ \/ Next1.d.kind = "PF" /\ Proceed
       \/ Next1.d.kind = "WB" /\ pc' = "remove" /\ UNCHANGED <<resent, ret, todo, result>>
    /\ UNCHANGED <<server, notified, cuts, sessions, marks, disk, device, login>>

\* A zipped image is unzipped, the zip deleted, and then the status file names
\* the result
Unzip ==
    /\ pc = "install" /\ Next1.d.kind # "PF" /\ Next1.d.zip /\ ~Next1.out
    /\ \/ /\ disk[ImagePath(Next1)] # <<>>
          /\ disk' = [disk EXCEPT ![<<Next1.d.name, ".bin">>] = disk[ImagePath(Next1)]]
          /\ pc' = "clear"
          /\ UNCHANGED <<saved, device, trade, resent, ret, todo, result>>
       \/ GiveUp(<<todo[1]>>)
    /\ UNCHANGED <<server, notified, cuts, sessions, marks, login>>

ClearZip ==
    /\ pc = "clear"
    /\ DeleteFile(ImagePath(Next1))
    /\ pc' = (IF Next1.d.kind = "PF" THEN "mark" ELSE "record")
    /\ UNCHANGED <<server, notified, cuts, sessions, dropped, saved, device, login,
                   trade, resent, ret, todo, result>>

RecordImage ==
    /\ pc = "record"
    /\ trade' = [trade EXCEPT !.files[todo[1]].out = TRUE]
    /\ WriteStatus(trade') /\ pc' = "install"
    /\ UNCHANGED <<server, notified, cuts, sessions, marks, disk, device, login,
                   resent, ret, todo, result>>

Ready == pc = "install" /\ Next1.d.kind # "PF" /\ (Next1.d.zip => Next1.out)

\* wifiUpgradeSendData_Api: afterwards the chip says which version it runs, and
\* only if it is the new one the file is marked and the image deleted
UpdateWifi ==
    /\ Ready /\ Next1.d.kind = "WB"
    /\ \/ /\ device' = [device EXCEPT !["WB"] = Next1.d.ver] /\ pc' = "mark"
          /\ UNCHANGED <<disk, saved, trade, resent, ret, todo, result>>
       \/ UNCHANGED <<flash, trade>> /\ Proceed
       \/ GiveUp(<<>>)
    /\ UNCHANGED <<server, notified, cuts, sessions, marks, login>>

RemoveImage ==
    /\ pc = "remove"
    /\ DeleteFile(ImagePath(Next1)) /\ Proceed
    /\ UNCHANGED <<server, notified, cuts, sessions, dropped, saved, device, login, trade>>

\* tmsUpdateFile_Api of a firmware or a library
UpdateSystem ==
    /\ Ready /\ Next1.d.kind \in {"UF", "DD"}
    /\ \/ /\ disk[ImagePath(Next1)] # <<>>
          /\ device' = [device EXCEPT ![Next1.d.kind] = Next1.d.ver]
          /\ UNCHANGED <<disk, saved, trade>> /\ Proceed
       \/ GiveUp(<<>>)
    /\ UNCHANGED <<server, notified, cuts, sessions, marks, login>>

\* tmsUpdateFile_Api of the app: what it returns is only logged
UpdateApp ==
    /\ Ready /\ Next1.d.kind = "APP"
    /\ \/ disk[ImagePath(Next1)] # <<>> /\ device' = [device EXCEPT !["APP"] = Next1.d.ver]
       \/ device' = device
    /\ UNCHANGED <<disk, saved, trade>> /\ Proceed
    /\ UNCHANGED <<server, notified, cuts, sessions, marks, login>>

FinishUpdate ==
    /\ pc = "finish"
    /\ DeleteStatus /\ End("ok")
    /\ UNCHANGED <<server, notified, cuts, sessions, dropped, disk, device, login>>

-----------------------------------------------------------------------------
\* The environment

Publish ==
    /\ published < MaxPublications
    /\ \E t \in Tasks \ {task} : task' = t
    /\ published' = published + 1
    /\ UNCHANGED <<expired, notified, cuts, sessions, marks, flash, thread, login>>

\* The token handed out last is no longer good
ExpireToken ==
    /\ expired < MaxExpiries /\ token > expired
    /\ expired' = token
    /\ UNCHANGED <<task, published, notified, cuts, sessions, marks, flash, thread, login>>

PowerCut ==
    /\ cuts < MaxCuts /\ pc # "idle"
    /\ cuts' = cuts + 1
    /\ lost' = lost
    /\ dropped' = (IF pc = "rename" THEN dropped \cup {Next1.d.name} ELSE dropped)
    /\ auth' = FALSE /\ token' = 0 /\ pc' = "idle" /\ trade' = NoTrade
    /\ resent' = FALSE /\ ret' = "zero" /\ todo' = <<>> /\ result' = "none"
    /\ UNCHANGED <<server, notified, sessions, flash>>

Thread ==
    \/ Connect \/ DeviceAuth \/ TermInfoUpload \/ RequestTask \/ DelDownload \/ DelDownStatus
    \/ FetchPiece \/ EmptyAnswer \/ NoAnswer \/ CommitPiece \/ Reconnect \/ Discard \/ Uncommit
    \/ LeaveDownload \/ Notify \/ Told
    \/ BeginUpdate \/ DeleteOld \/ RenameNew \/ UnzipParameters \/ MarkUpdated
    \/ Unzip \/ ClearZip \/ RecordImage \/ UpdateWifi \/ RemoveImage
    \/ UpdateSystem \/ UpdateApp \/ FinishUpdate

Next == Start \/ Thread \/ Publish \/ ExpireToken \/ PowerCut

\* The menu thread runs while it can; nobody has to start or publish anything
Spec == Init /\ [][Next]_vars /\ WF_vars(Thread)
-----------------------------------------------------------------------------
\* Properties

Verified(e) ==
    LET d == e.d
        s == disk[DownloadPath(d)]
    IN  Len(s) >= d.size /\ SubSeq(s, 1, d.size) = Content(d)

\* The device no longer has under d's name what it may have put there.
Gone(d) == DownloadPath(d) \in lost

\* The MD5 is taken from the answers as they arrive, never from the flash
\* (Tms_WriteFile).  All the same a file counts as complete only when the flash
\* holds the content the task promised, through resumptions from the status
\* file, repeated pieces and older files left under its name.  The one way round
\* it is a file the device itself deleted or moved away, for a wrong MD5, another
\* task list or an installation, while the status file, by a power failure or an
\* unnoticed failed write, went on counting it.
CompleteIsVerified ==
    pc \in {"download", "commit", "reconnect", "notify", "told"} =>
        \A i \in DOMAIN trade.files :
            trade.files[i].st = "complete" => Verified(trade.files[i]) \/ Gone(trade.files[i].d)

\* The whole file is thrown away for a wrong MD5 only when an answer was wrong or
\* a piece came from another build the server had published under the version
\* and size the download had begun with: neither a resumed context nor the one of
\* the file before makes a good download fail (Tms_DownloadUrlFilesOneByOne,
\* _tms_MD5Init).
MismatchExplained ==
    pc = "discard" =>
        \E i \in DOMAIN trade.ctx :
            trade.ctx[i] = Bad \/ trade.ctx[i][2] # Current.d.build

\* The server hears of success (status 0) only about a file whose every piece is
\* on the flash, or is gone as above, and of failure only about one that has been
\* installed already; never of a file the download was not of (Tms_Notify).
NotifyHasFile ==
    [][\A x \in notified' \ notified :
          \E i \in DOMAIN trade.files :
              LET e == trade.files[i]
              IN  /\ <<e.d.name, e.d.ver>> = <<x[1], x[2]>>
                  /\ IF x[3] = 0 THEN Verified(e) \/ Gone(e.d) ELSE e.st = "update"]_vars

\* The parameters in use are gone only while they are being replaced, or when
\* that was cut short or failed, or when Tms_DelAllDownloadInfo deleted them
\* instead of their download; no other file's download or installation touches
\* them, and parameters in the form of a zip are never gone.
ParametersLossExplained ==
    \A d \in Desc : d.kind = "PF" =>
        \/ disk[<<d.name, IF d.zip THEN "/ext/" ELSE "">>] # <<>>
        \/ ~d.zip /\ d.name \in dropped
        \/ ~d.zip /\ pc = "rename" /\ Next1.d.name = d.name

(* The inductive invariant behind them. *)

Fetching == {"download", "commit", "reconnect", "discard", "uncommit", "notify", "told"}
Installing == {"update", "install", "rename", "unzip", "clear", "record", "mark",
               "remove", "scrap", "finish"}

\* The server has handed out one token more than have expired.
TokenInv == token <= expired + 1

\* A list of which nothing has been downloaded; one all of whose files may be gone.
Fresh(s) ==
    /\ s.cur = 1 /\ s.files # <<>>
    /\ \A i \in DOMAIN s.files : s.files[i].pos = 0 /\ s.files[i].st = "uncomplete"
Disowned(s) == \A i \in DOMAIN s.files : Gone(s.files[i].d)

\* A download goes on from what the last commit wrote, unless nothing was
\* committed yet; the installation finds what the download left.
PhaseInv ==
    /\ pc \in Fetching \cup {"wipe"} => trade.kind = "task"
    /\ saved # NoInfo => saved.kind # "none" /\ saved.files # <<>>
    /\ pc \in {"download", "reconnect"} =>
          saved = trade \/ (Fresh(trade) /\ (saved = NoInfo \/ Disowned(saved)))
    /\ pc = "wipe" => Fresh(trade) /\ saved # NoInfo
    /\ pc \in {"notify", "told"} => saved = trade
    /\ pc = "update" => saved # NoInfo
    /\ pc \in {"discard", "uncommit"} => trade.cur <= Len(trade.files) /\ Current.pos = 0
    /\ pc \in {"notify", "told"} => trade.cur > Len(trade.files)
    /\ pc = "update" => saved.cur > Len(saved.files)
    /\ pc \in Installing \ {"update"} => trade.cur > Len(trade.files)
    /\ saved.kind = "update" => saved.cur > Len(saved.files)
    /\ pc = "notify" => todo # <<>> /\ todo[1] \in DOMAIN trade.files

\* Files are downloaded in the order of the list, each to its own path.
Partial(s) == s.cur <= Len(s.files) /\ s.files[s.cur].pos > 0
Progress(s) ==
    /\ s.files # <<>>
    /\ \A i \in DOMAIN s.files :
          /\ i < s.cur => s.files[i].st # "uncomplete"
          /\ i >= s.cur => s.files[i].st = "uncomplete"
          /\ i > s.cur => s.files[i].pos = 0
          /\ \A j \in DOMAIN s.files : s.files[i].d.name = s.files[j].d.name => i = j

\* The MD5's context is the answers of the current file, in order.
Answered(ctx, d) ==
    \A k \in DOMAIN ctx : ctx[k] = Bad \/ ctx[k] = <<d.ver, ctx[k][2], k>>
ContextOf(s) ==
    Partial(s) => /\ Len(s.ctx) = s.files[s.cur].pos
                  /\ Answered(s.ctx, s.files[s.cur].d)
MismatchInv ==
    pc = "discard" => /\ Len(trade.ctx) = Current.d.size /\ trade.ctx # Content(Current.d)
                      /\ Answered(trade.ctx, Current.d)

\* A list of a download, in memory or in the status file, is in order: also one
\* that is being installed because its new type was not written.
Listed(s) == s.kind = "task" /\ s.files # <<>>
DownloadInv ==
    /\ \A s \in {trade, saved} : Listed(s) => Progress(s) /\ ContextOf(s)
    /\ pc \in Fetching => trade.files # <<>>

\* The flash holds what the context has seen, and every complete file.
Written(s) ==
    Partial(s) =>
        LET e == s.files[s.cur]
        IN  \/ Gone(e.d)
            \/ /\ Len(disk[DownloadPath(e.d)]) >= e.pos
               /\ \A k \in 1..e.pos : disk[DownloadPath(e.d)][k] = s.ctx[k]
Intact(s) ==
    /\ \A i \in DOMAIN s.files :
          s.files[i].st = "complete" => Verified(s.files[i]) \/ Gone(s.files[i].d)
    /\ Written(s)
FlashInv == \A s \in {trade, saved} : Listed(s) => Intact(s)

\* What is being installed or deleted.
InstallInv ==
    /\ pc \in Installing \ {"update", "scrap", "finish"} =>
          /\ todo # <<>> /\ \A k \in DOMAIN todo : todo[k] \in DOMAIN trade.files
          /\ pc \in {"rename", "unzip"} => Next1.d.kind = "PF"
          /\ pc = "unzip" => Next1.d.zip /\ disk[<<Next1.d.name, "">>] # <<>>
          /\ pc = "clear" /\ Next1.d.kind = "PF" => Next1.d.zip
          /\ pc = "record" => Next1.d.kind # "PF"
          /\ pc = "mark" => Next1.d.kind \in {"PF", "WB"}
          /\ pc = "remove" => Next1.d.kind = "WB"
    /\ pc \in {"wipe", "scrap"} => \A k \in DOMAIN todo : todo[k] \in DOMAIN Doom

IInv ==
    /\ TypeOK /\ TokenInv /\ PhaseInv /\ DownloadInv /\ MismatchInv /\ FlashInv
    /\ InstallInv /\ ParametersLossExplained

(* Liveness. *)

\* Every upgrade ends, with or without an answer to any of its requests, since a
\* request is repeated once and a broken download is not tried again; only an
\* empty file and a server that answers without a body again and again hold the
\* menu thread for good (Tms_DownloadUrlFilesOneByOne).
SessionEnds ==
    []<><<EmptyAnswer>>_vars \/ (pc # "idle" ~> (pc = "idle" \/ Spinning))
=============================================================================
