------------------------ MODULE FirmwareUpgrade_proofs ------------------------
(***************************************************************************)
(* Proofs about FirmwareUpgrade for any task lists and any number of       *)
(* sessions, publications, power failures and expired tokens.              *)
(***************************************************************************)
EXTENDS FirmwareUpgrade, SequenceTheorems, FiniteSetTheorems, TLAPS

Phases ==
    {"idle", "connect", "auth", "info", "task", "wipe", "download", "commit", "reconnect",
     "discard", "uncommit", "notify", "told", "update", "install", "rename", "unzip", "clear",
     "record", "mark", "remove", "scrap", "finish"}
Descs == [name : STRING, kind : Kinds, ver : Nat, base : Nat, size : Nat, build : Nat,
          zip : BOOLEAN]
Systems == Kinds \ {"PF"}

----------------------------------------------------------------------------
(* The data *)

LEMMA DescFacts ==
  ASSUME NEW d \in Desc
  PROVE  /\ d \in Descs /\ d.ver \in Nat /\ d.size \in Nat /\ d.build \in Nat
         /\ d.kind \in Kinds /\ d.zip \in BOOLEAN /\ d.name \in STRING
<1>1. PICK t \in Tasks : d \in {t[i] : i \in DOMAIN t}
  BY DEF Desc
<1>2. PICK i \in DOMAIN t : d = t[i]
  BY <1>1
<1>3. t \in Seq(Descs)
  BY TasksAssumption DEF Descs
<1>4. t[i] \in Descs
  BY <1>3, LenProperties, ElementOfSeq
<1>5. QED BY <1>2, <1>4 DEF Descs

LEMMA TaskFacts ==
  ASSUME NEW t \in Tasks
  PROVE  /\ Len(t) \in Nat /\ DOMAIN t = 1..Len(t) /\ \A i \in DOMAIN t : t[i] \in Desc
         /\ \A i, j \in DOMAIN t : t[i].name = t[j].name => i = j
<1>1. t \in Seq(Descs)
  BY TasksAssumption DEF Descs
<1>2. Len(t) \in Nat /\ DOMAIN t = 1..Len(t)
  BY <1>1, LenProperties
<1>3. \A i \in DOMAIN t : t[i] \in Desc
  BY DEF Desc
<1>4. \A i, j \in DOMAIN t : t[i].name = t[j].name => i = j
  BY FilesAssumption
<1>5. QED BY <1>2, <1>3, <1>4

LEMMA ContentFacts ==
  ASSUME NEW d \in Desc
  PROVE  /\ Content(d) \in Seq(Pieces) /\ Len(Content(d)) = d.size
         /\ \A i \in 1..d.size : Content(d)[i] = <<d.ver, d.build, i>> /\ Content(d)[i] \in Pieces
<1>1. d.size \in Nat
  BY DescFacts
<1>2. \A i \in 1..d.size : Content(d)[i] = <<d.ver, d.build, i>>
  BY DEF Content
<1>3. ASSUME NEW i \in 1..d.size
      PROVE  Content(d)[i] \in Pieces
  <2>1. Content(d)[i] \in UNION {{Content(f)[j] : j \in 1..f.size} : f \in Desc}
    OBVIOUS
  <2>2. QED BY <2>1 DEF Pieces
<1>4. Content(d) \in [1..d.size -> Pieces]
  BY <1>2, <1>3 DEF Content
<1>5. Content(d) \in Seq(Pieces)
  BY <1>1, <1>4, SeqDef
<1>6. Len(Content(d)) = d.size
  BY <1>1, <1>4, <1>5, LenProperties
<1>7. QED BY <1>2, <1>3, <1>5, <1>6

LEMMA PieceFacts ==
  /\ Bad \in Pieces /\ Hole \in Pieces
  /\ <<>> \in Seq(Pieces) /\ OldParameters \in Seq(Pieces) /\ OldParameters # <<>>
<1>1. Bad \in Pieces /\ Hole \in Pieces /\ OldParameters[1] \in Pieces
  BY DEF Pieces
<1>2. \A x : OldParameters[1] = x => OldParameters = <<x>>
  BY DEF OldParameters
<1>3. PICK x \in Pieces : OldParameters = <<x>>
  BY <1>1, <1>2
<1>4. <<x>> \in Seq(Pieces) /\ <<x>> # <<>> /\ <<>> \in Seq(Pieces)
  OBVIOUS
<1>5. QED BY <1>1, <1>3, <1>4, Zenon

LEMMA PathFacts ==
  ASSUME NEW d \in Desc
  PROVE  /\ \A x \in {"", ".bak", ".bin", "/ext/"} : <<d.name, x>> \in Paths
         /\ DownloadPath(d) \in Paths /\ DownloadPath(d)[1] = d.name
         /\ DownloadPath(d)[2] # "/ext/"
         /\ d.kind = "PF" => DownloadPath(d)[2] = ".bak"
         /\ \A e : e.d = d => /\ ImagePath(e) \in Paths /\ ImagePath(e)[1] = d.name
                              /\ ImagePath(e)[2] # "/ext/"
<1>1. \A x \in {"", ".bak", ".bin", "/ext/"} : <<d.name, x>> \in Paths
  BY DEF Paths
<1>2. QED BY <1>1 DEF DownloadPath, ImagePath

\* Where the parameters in use are.
InUse(d) == <<d.name, IF d.zip THEN "/ext/" ELSE "">>

LEMMA InUseFacts ==
  ASSUME NEW d \in Desc
  PROVE  /\ InUse(d) \in Paths /\ InUse(d)[1] = d.name
         /\ InUse(d)[2] = IF d.zip THEN "/ext/" ELSE ""
<1>1. \A x \in {"", ".bak", ".bin", "/ext/"} : <<d.name, x>> \in Paths
  BY PathFacts
<1>2. \A x, y : <<x, y>>[1] = x /\ <<x, y>>[2] = y
  OBVIOUS
<1>3. (IF d.zip THEN "/ext/" ELSE "") \in {"", ".bak", ".bin", "/ext/"}
  OBVIOUS
<1>4. QED BY <1>1, <1>2, <1>3, Zenon DEF InUse

\* What a write of one piece at its offset leaves.
LEMMA PatchFacts ==
  ASSUME NEW s \in Seq(Pieces), NEW pos \in Nat, NEW piece \in Pieces
  PROVE  /\ Patch(s, pos, piece) \in Seq(Pieces) /\ Patch(s, pos, piece) # <<>>
         /\ Len(Patch(s, pos, piece)) >= pos + 1
         /\ Patch(s, pos, piece)[pos + 1] = piece
         /\ \A k \in 1..Len(s) : k # pos + 1 => Patch(s, pos, piece)[k] = s[k]
<1> DEFINE n == LastOf(Len(s), pos + 1)
           p == Patch(s, pos, piece)
<1>1. Len(s) \in Nat /\ \A i \in 1..Len(s) : s[i] \in Pieces
  BY LenProperties, ElementOfSeq
<1>2. n \in Nat /\ n >= pos + 1 /\ n >= Len(s)
  BY <1>1 DEF LastOf
<1>3. \A i \in 1..n : p[i] = IF i = pos + 1 THEN piece ELSE IF i <= Len(s) THEN s[i] ELSE Hole
  BY DEF Patch
<1>4. \A i \in 1..n : p[i] \in Pieces
  BY <1>1, <1>3, <1>2, PieceFacts
<1>5. p \in [1..n -> Pieces]
  BY <1>4 DEF Patch
<1>6. p \in Seq(Pieces)
  BY <1>2, <1>5, SeqDef
<1>7. Len(p) = n
  BY <1>2, <1>5, <1>6, LenProperties
<1>8. pos + 1 \in 1..n /\ \A k \in 1..Len(s) : k \in 1..n
  BY <1>1, <1>2
<1>9. p # <<>>
  BY <1>2, <1>6, <1>7, EmptySeq
<1>10. p[pos + 1] = piece
  BY <1>3, <1>8
<1>11. \A k \in 1..Len(s) : k # pos + 1 => p[k] = s[k]
  BY <1>1, <1>3, <1>8
<1>12. QED BY <1>2, <1>6, <1>7, <1>9, <1>10, <1>11

\* A file is verified piece by piece.
Holds(s, d) == Len(s) >= d.size /\ SubSeq(s, 1, d.size) = Content(d)

LEMMA VerifiedFacts ==
  ASSUME NEW d \in Desc, NEW s \in Seq(Pieces)
  PROVE  Holds(s, d) <=> Len(s) >= d.size /\ \A k \in 1..d.size : s[k] = Content(d)[k]
<1> DEFINE c == Content(d)
           n == d.size
<1>1. n \in Nat /\ c \in Seq(Pieces) /\ Len(c) = n
  BY DescFacts, ContentFacts
<1>2. Len(s) \in Nat /\ \A i \in 1..Len(s) : s[i] \in Pieces
  BY LenProperties, ElementOfSeq
<1>3. ASSUME Len(s) >= n
      PROVE  SubSeq(s, 1, n) = c <=> \A k \in 1..n : s[k] = c[k]
  <2>1. \A i \in 1..n : s[i] \in Pieces
    BY <1>1, <1>2, <1>3
  <2>2. /\ SubSeq(s, 1, n) \in Seq(Pieces)
        /\ Len(SubSeq(s, 1, n)) = IF 1 <= n THEN n - 1 + 1 ELSE 0
        /\ \A i \in 1..(n - 1 + 1) : SubSeq(s, 1, n)[i] = s[1 + i - 1]
    BY <1>1, <2>1, SubSeqProperties
  <2>3. Len(SubSeq(s, 1, n)) = n /\ \A i \in 1..n : SubSeq(s, 1, n)[i] = s[i]
    BY <1>1, <2>2
  <2>4. (\A k \in 1..n : s[k] = c[k]) => SubSeq(s, 1, n) = c
    BY <1>1, <2>2, <2>3, SeqEqual
  <2>5. SubSeq(s, 1, n) = c => \A k \in 1..n : s[k] = c[k]
    BY <2>3
  <2>6. QED BY <2>4, <2>5
<1>4. QED BY <1>3 DEF Holds

----------------------------------------------------------------------------
(* Types *)

Fits(s, kinds) ==
    /\ s \in Trades(kinds) /\ s.cur <= Len(s.files) + 1
    /\ \A i \in DOMAIN s.files : s.files[i].pos <= s.files[i].d.size

InRam == {"task", "update"}
OnFlash == {"none", "task", "update"}

LEMMA TradeFacts ==
  ASSUME NEW kinds, NEW s, Fits(s, kinds)
  PROVE  /\ s.kind \in kinds /\ s.cur \in Nat \ {0} /\ s.cur <= Len(s.files) + 1
         /\ s.files \in Seq(Files) /\ Len(s.files) \in Nat /\ DOMAIN s.files = 1..Len(s.files)
         /\ s.ctx \in Seq(Pieces) /\ Len(s.ctx) \in Nat /\ DOMAIN s.ctx = 1..Len(s.ctx)
         /\ s = [kind |-> s.kind, files |-> s.files, cur |-> s.cur, ctx |-> s.ctx]
         /\ \A i \in DOMAIN s.files :
              /\ s.files[i] \in Files /\ s.files[i].d \in Desc /\ s.files[i].d.size \in Nat
              /\ s.files[i].pos \in Nat /\ s.files[i].pos <= s.files[i].d.size
<1>1. /\ s.kind \in kinds /\ s.files \in Seq(Files) /\ s.cur \in Nat \ {0} /\ s.ctx \in Seq(Pieces)
      /\ s = [kind |-> s.kind, files |-> s.files, cur |-> s.cur, ctx |-> s.ctx]
  BY DEF Fits, Trades
<1>2. /\ Len(s.files) \in Nat /\ DOMAIN s.files = 1..Len(s.files)
      /\ Len(s.ctx) \in Nat /\ DOMAIN s.ctx = 1..Len(s.ctx)
  BY <1>1, LenProperties
<1>3. \A i \in DOMAIN s.files : s.files[i] \in Files
  BY <1>1, <1>2, ElementOfSeq
<1>4. \A i \in DOMAIN s.files :
        s.files[i].d \in Desc /\ s.files[i].d.size \in Nat /\ s.files[i].pos \in Nat
  BY <1>3, DescFacts DEF Files
<1>5. QED BY <1>1, <1>2, <1>3, <1>4 DEF Fits

LEMMA FitsAgain ==
  ASSUME NEW kinds, NEW k \in kinds, NEW fs \in Seq(Files), NEW c \in Nat \ {0},
         NEW x \in Seq(Pieces), c <= Len(fs) + 1,
         \A i \in DOMAIN fs : fs[i].pos <= fs[i].d.size
  PROVE  Fits([kind |-> k, files |-> fs, cur |-> c, ctx |-> x], kinds)
  BY DEF Fits, Trades

LEMMA Typed ==
  ASSUME TypeOK
  PROVE  /\ task \in Tasks /\ expired \in 0..MaxExpiries /\ pc \in Phases
         /\ disk \in [Paths -> Seq(Pieces)] /\ Fits(saved, OnFlash) /\ Fits(trade, InRam)
         /\ todo \in Seq(Nat) /\ device \in [Systems -> Nat]
         /\ resent \in BOOLEAN /\ auth \in BOOLEAN /\ token \in 0..(MaxExpiries + 1)
         /\ ret \in {"zero", "junk"} /\ result \in {"none", "ok", "failed"}
  BY DEF TypeOK, Phases, Fits, OnFlash, InRam, Systems

LEMMA TypedAgain ==
  ASSUME task' \in Tasks, expired' \in 0..MaxExpiries, pc' \in Phases,
         disk' \in [Paths -> Seq(Pieces)], Fits(saved, OnFlash)', Fits(trade, InRam)',
         todo' \in Seq(Nat), device' \in [Systems -> Nat],
         resent' \in BOOLEAN, auth' \in BOOLEAN, token' \in 0..(MaxExpiries + 1),
         ret' \in {"zero", "junk"}, result' \in {"none", "ok", "failed"}
  PROVE  TypeOK'
  BY DEF TypeOK, Phases, Fits, OnFlash, InRam, Systems

LEMMA EmptyFits ==
  ASSUME NEW e, e = <<>>, NEW kinds, NEW k \in kinds
  PROVE  Fits([kind |-> k, files |-> e, cur |-> 1, ctx |-> e], kinds)
<1>1. e \in Seq(Files) /\ e \in Seq(Pieces) /\ Len(e) = 0
  BY EmptySeq
<1>2. DOMAIN e = 1..0
  BY <1>1, LenProperties
<1>3. 1 \in Nat \ {0} /\ 1 <= Len(e) + 1 /\ \A i \in DOMAIN e : e[i].pos <= e[i].d.size
  BY <1>1, <1>2
<1>4. QED BY <1>1, <1>3, FitsAgain

LEMMA NothingFits == Fits(NoTrade, InRam) /\ Fits(NoInfo, OnFlash)
<1>1. "none" \in OnFlash /\ "task" \in InRam
  BY DEF OnFlash, InRam
<1>2. Fits(NoTrade, InRam)
  BY <1>1, EmptyFits DEF NoTrade
<1>3. NoInfo = [kind |-> "none", files |-> <<>>, cur |-> 1, ctx |-> <<>>]
  BY DEF NoInfo, NoTrade
<1>4. QED BY <1>1, <1>2, <1>3, EmptyFits

LEMMA RamFitsFlash ==
  ASSUME NEW s
  PROVE  /\ Fits(s, InRam) => Fits(s, OnFlash)
         /\ Fits(s, OnFlash) /\ s.kind # "none" => Fits(s, InRam)
  BY DEF Fits, InRam, OnFlash, Trades

\* One file of a trade is changed.
LEMMA FileFits ==
  ASSUME NEW kinds, NEW s, Fits(s, kinds), NEW i \in DOMAIN s.files, NEW f \in Files,
         f.pos <= f.d.size, NEW c \in Nat \ {0}, c <= Len(s.files) + 1, NEW x \in Seq(Pieces)
  PROVE  LET fs == [s.files EXCEPT ![i] = f]
         IN  /\ fs \in Seq(Files) /\ Len(fs) = Len(s.files) /\ DOMAIN fs = DOMAIN s.files
             /\ fs[i] = f /\ \A j \in DOMAIN s.files : j # i => fs[j] = s.files[j]
             /\ Fits([kind |-> s.kind, files |-> fs, cur |-> c, ctx |-> x], kinds)
<1> DEFINE fs == [s.files EXCEPT ![i] = f]
<1>1. /\ s.files \in Seq(Files) /\ Len(s.files) \in Nat /\ DOMAIN s.files = 1..Len(s.files)
      /\ s.kind \in kinds /\ \A j \in DOMAIN s.files : s.files[j].pos <= s.files[j].d.size
  BY TradeFacts
<1>2. /\ fs \in Seq(Files) /\ Len(fs) = Len(s.files) /\ DOMAIN fs = DOMAIN s.files
      /\ fs[i] = f /\ \A j \in DOMAIN s.files : j # i => fs[j] = s.files[j]
  BY <1>1, ExceptSeq
<1>3. \A j \in DOMAIN fs : fs[j].pos <= fs[j].d.size
  BY <1>1, <1>2
<1>4. Fits([kind |-> s.kind, files |-> fs, cur |-> c, ctx |-> x], kinds)
  BY <1>1, <1>2, <1>3, FitsAgain
<1>5. QED BY <1>2, <1>4

\* An element of Ordered lists the set without repetition.
LEMMA OrderedFacts ==
  ASSUME NEW I \in SUBSET Nat, IsFiniteSet(I), NEW rank, \A i \in I : rank[i] \in Nat,
         NEW s \in Ordered(I, rank)
  PROVE  /\ s \in Seq(I) /\ DOMAIN s = 1..Len(s) /\ \A a \in DOMAIN s : s[a] \in I
         /\ \A a, b \in DOMAIN s : s[a] = s[b] => a = b
<1>1. Cardinality(I) \in Nat
  BY FS_CardinalityType
<1>2. s \in [1..Cardinality(I) -> I]
  BY DEF Ordered
<1>3. s \in Seq(I) /\ DOMAIN s = 1..Cardinality(I) /\ \A a \in DOMAIN s : s[a] \in I
  BY <1>1, <1>2, SeqDef
<1>4. DOMAIN s = 1..Len(s)
  BY <1>3, LenProperties
<1>5. ASSUME NEW a \in DOMAIN s, NEW b \in DOMAIN s, a < b, s[a] = s[b]
      PROVE  FALSE
  <2>1. rank[s[a]] < rank[s[b]] \/ (rank[s[a]] = rank[s[b]] /\ s[a] < s[b])
    BY <1>5 DEF Ordered
  <2>2. s[a] \in Nat /\ rank[s[a]] \in Nat
    BY <1>3
  <2>3. QED BY <1>5, <2>1, <2>2
<1>6. \A a, b \in DOMAIN s : a < b \/ b < a \/ a = b
  BY <1>1, <1>3
<1>7. QED BY <1>3, <1>4, <1>5, <1>6

----------------------------------------------------------------------------
(* What a list says of the flash; dk and ls stand for disk and lost *)

HasFiles(s, dk, ls) ==
    \A i \in DOMAIN s.files : s.files[i].st = "complete" =>
        \/ Holds(dk[DownloadPath(s.files[i].d)], s.files[i].d)
        \/ DownloadPath(s.files[i].d) \in ls

HasPart(s, dk, ls) ==
    Partial(s) =>
        LET e == s.files[s.cur]
            p == DownloadPath(e.d)
        IN  p \in ls \/ (Len(dk[p]) >= e.pos /\ \A k \in 1..e.pos : dk[p][k] = s.ctx[k])

Whole(s, dk, ls) ==
    Listed(s) => Progress(s) /\ ContextOf(s) /\ HasFiles(s, dk, ls) /\ HasPart(s, dk, ls)

LEMMA WholeNow ==
  ASSUME DownloadInv, FlashInv
  PROVE  Whole(trade, disk, lost) /\ Whole(saved, disk, lost)
<1>1. \A s \in {trade, saved} : Listed(s) => Progress(s) /\ ContextOf(s) /\ Intact(s)
  BY DEF DownloadInv, FlashInv
<1>2. \A s : Intact(s) => HasFiles(s, disk, lost) /\ HasPart(s, disk, lost)
  BY DEF Intact, HasFiles, HasPart, Verified, Written, Holds, Gone
<1>3. QED BY <1>1, <1>2 DEF Whole

LEMMA WholeNext ==
  ASSUME Whole(trade', disk', lost'), Whole(saved', disk', lost'),
         pc' \in Fetching => trade'.files # <<>>
  PROVE  DownloadInv' /\ FlashInv'
<1>1. Listed(trade') => Progress(trade') /\ ContextOf(trade') /\ Intact(trade)'
  BY DEF Whole, Intact, HasFiles, HasPart, Verified, Written, Holds, Gone
<1>2. Listed(saved') => Progress(saved') /\ ContextOf(saved') /\ Intact(saved)'
  BY DEF Whole, Intact, HasFiles, HasPart, Verified, Written, Holds, Gone
<1>3. QED BY <1>1, <1>2 DEF DownloadInv, FlashInv

\* Nothing is claimed of no list, of an installed one, or of a fresh one.
LEMMA NothingIsWhole ==
  ASSUME NEW dk, NEW ls
  PROVE  Whole(NoTrade, dk, ls) /\ Whole(NoInfo, dk, ls)
BY DEF Whole, Listed, NoTrade, NoInfo

LEMMA FreshIsWhole ==
  ASSUME NEW s, Fits(s, InRam), Fresh(s), NEW dk, NEW ls,
         \A i, j \in DOMAIN s.files : s.files[i].d.name = s.files[j].d.name => i = j
  PROVE  Whole(s, dk, ls)
<1>1. /\ Len(s.files) \in Nat /\ DOMAIN s.files = 1..Len(s.files) /\ s.cur = 1
      /\ \A i \in DOMAIN s.files : s.files[i].pos = 0 /\ s.files[i].st = "uncomplete"
  BY TradeFacts DEF Fresh
<1>2. Progress(s)
  BY <1>1 DEF Progress, Fresh
<1>3. ~Partial(s)
  BY <1>1 DEF Partial
<1>4. HasFiles(s, dk, ls)
  BY <1>1 DEF HasFiles
<1>5. QED BY <1>2, <1>3, <1>4 DEF Whole, HasPart, ContextOf

\* A step that loses what it deletes.
LEMMA WholeKept ==
  ASSUME NEW kinds, NEW s, Fits(s, kinds), NEW d1, NEW d2, NEW l1, NEW l2,
         Whole(s, d1, l1), l1 \subseteq l2,
         \A d \in Desc : d2[DownloadPath(d)] = d1[DownloadPath(d)] \/ DownloadPath(d) \in l2
  PROVE  Whole(s, d2, l2)
<1>1. /\ s.cur \in Nat \ {0} /\ Len(s.files) \in Nat /\ DOMAIN s.files = 1..Len(s.files)
      /\ \A i \in DOMAIN s.files : s.files[i].d \in Desc
  BY TradeFacts
<1>2. HasFiles(s, d1, l1) => HasFiles(s, d2, l2)
  BY <1>1 DEF HasFiles
<1>3. HasPart(s, d1, l1) => HasPart(s, d2, l2)
  <2>1. Partial(s) => s.cur \in DOMAIN s.files
    BY <1>1 DEF Partial
  <2>2. QED BY <1>1, <2>1 DEF HasPart
<1>4. QED BY <1>2, <1>3 DEF Whole

\* All its files may be gone.
LEMMA DisownedIsWhole ==
  ASSUME NEW kinds, NEW s, Fits(s, kinds), NEW d1, NEW d2, NEW l1, NEW l2, Whole(s, d1, l1),
         \A i \in DOMAIN s.files : DownloadPath(s.files[i].d) \in l2
  PROVE  Whole(s, d2, l2)
<1>1. /\ s.cur \in Nat \ {0} /\ Len(s.files) \in Nat /\ DOMAIN s.files = 1..Len(s.files)
  BY TradeFacts
<1>2. Partial(s) => s.cur \in DOMAIN s.files
  BY <1>1 DEF Partial
<1>3. QED BY <1>2 DEF Whole, HasFiles, HasPart

\* A file of an installed list is marked.
LEMMA WholeMarked ==
  ASSUME NEW s, Fits(s, InRam), s.cur > Len(s.files), NEW t, Fits(t, InRam),
         t.kind = s.kind, t.cur = s.cur, Len(t.files) = Len(s.files),
         \A i \in DOMAIN s.files : /\ t.files[i].d = s.files[i].d
                                   /\ t.files[i].st = s.files[i].st \/ t.files[i].st = "update",
         NEW dk, NEW ls, Whole(s, dk, ls)
  PROVE  Whole(t, dk, ls)
<1>1. /\ Len(s.files) \in Nat /\ DOMAIN s.files = 1..Len(s.files) /\ s.files \in Seq(Files)
      /\ DOMAIN t.files = 1..Len(s.files) /\ t.files \in Seq(Files) /\ s.cur \in Nat
  BY TradeFacts
<1>2. ~Partial(t)
  BY <1>1 DEF Partial
<1>3. s.files # <<>> <=> t.files # <<>>
  BY <1>1, EmptySeq
<1>4. Progress(s) => Progress(t)
  <2>1. \A i \in 1..Len(s.files) : i < s.cur
    BY <1>1
  <2>2. QED BY <1>1, <1>3, <2>1 DEF Progress
<1>5. HasFiles(s, dk, ls) => HasFiles(t, dk, ls)
  BY <1>1 DEF HasFiles
<1>6. QED BY <1>2, <1>3, <1>4, <1>5 DEF Whole, HasPart, ContextOf, Listed

----------------------------------------------------------------------------
(* The effect of each step *)

\* What the login, the server and the menu thread's place become.
Small ==
    /\ task \in Tasks /\ expired \in 0..MaxExpiries /\ pc \in Phases /\ resent \in BOOLEAN
    /\ auth \in BOOLEAN /\ token \in 0..(MaxExpiries + 1)
    /\ ret \in {"zero", "junk"} /\ result \in {"none", "ok", "failed"}

LEMMA StepSmall ==
  ASSUME TypeOK, TokenInv, [Next]_vars
  PROVE  Small' /\ TokenInv'
<1>0. Small /\ MaxExpiries \in Nat /\ token <= expired + 1
  BY Typed, BoundsAssumption DEF Small, TokenInv
<1> USE DEF Small, TokenInv, Phases, server, flash, login, thread, marks, Fail, End, Proceed, GiveUp
<1>1. CASE Start \/ Connect
  BY <1>0, <1>1 DEF Start, Connect
<1>2. CASE DeviceAuth \/ TermInfoUpload
  <2>1. token' = token \/ token' = expired + 1
    BY <1>2 DEF DeviceAuth, TermInfoUpload, AuthPacket, Packet
  <2>2. token' \in 0..(MaxExpiries + 1) /\ token' <= expired + 1
    BY <1>0, <2>1
  <2>3. QED BY <1>0, <1>2, <2>2 DEF DeviceAuth, TermInfoUpload
<1>3. CASE RequestTask
  BY <1>0, <1>3 DEF RequestTask
<1>4. CASE DelDownload \/ DelDownStatus
  BY <1>0, <1>4 DEF DelDownload, DelDownStatus
<1>5. CASE FetchPiece \/ EmptyAnswer
  BY <1>0, <1>5 DEF FetchPiece, EmptyAnswer
<1>6. CASE NoAnswer \/ Reconnect
  BY <1>0, <1>6 DEF NoAnswer, Reconnect
<1>7. CASE CommitPiece \/ Discard \/ Uncommit
  BY <1>0, <1>7 DEF CommitPiece, Discard, Uncommit
<1>8. CASE LeaveDownload \/ Notify
  BY <1>0, <1>8 DEF LeaveDownload, Notify
<1>9. CASE Told \/ BeginUpdate
  BY <1>0, <1>9 DEF Told, BeginUpdate
<1>10. CASE DeleteOld \/ MarkUpdated \/ RemoveImage
  BY <1>0, <1>10 DEF DeleteOld, MarkUpdated, RemoveImage
<1>11. CASE RenameNew \/ UnzipParameters
  BY <1>0, <1>11 DEF RenameNew, UnzipParameters
<1>12. CASE Unzip \/ ClearZip \/ RecordImage
  BY <1>0, <1>12 DEF Unzip, ClearZip, RecordImage
<1>13. CASE UpdateWifi
  BY <1>0, <1>13 DEF UpdateWifi
<1>14. CASE UpdateSystem
  BY <1>0, <1>14 DEF UpdateSystem
<1>15. CASE UpdateApp \/ FinishUpdate
  BY <1>0, <1>15 DEF UpdateApp, FinishUpdate
<1>16. CASE Publish
  <2>1. /\ task' \in Tasks
        /\ UNCHANGED <<expired, pc, resent, auth, token, ret, result>>
    BY <1>16 DEF Publish
  <2>2. QED BY <1>0, <2>1
<1>17. CASE ExpireToken
  <2>1. /\ expired < MaxExpiries /\ token > expired /\ expired' = token
        /\ UNCHANGED <<task, pc, resent, auth, token, ret, result>>
    BY <1>17 DEF ExpireToken
  <2>2. expired' \in 0..MaxExpiries /\ token' <= expired' + 1
    BY <1>0, <2>1
  <2>3. QED BY <1>0, <2>1, <2>2
<1>18. CASE PowerCut
  <2>1. /\ auth' = FALSE /\ token' = 0 /\ pc' = "idle" /\ resent' = FALSE /\ ret' = "zero"
        /\ result' = "none" /\ UNCHANGED <<task, expired>>
    BY <1>18 DEF PowerCut
  <2>2. token' \in 0..(MaxExpiries + 1) /\ token' <= expired' + 1
    BY <1>0, <2>1
  <2>3. QED BY <1>0, <2>1, <2>2
<1>19. CASE UNCHANGED vars
  BY <1>0, <1>19 DEF vars
<1>20. QED BY <1>1, <1>2, <1>3, <1>4, <1>5, <1>6, <1>7, <1>8, <1>9, <1>10, <1>11,
             <1>12, <1>13, <1>14, <1>15, <1>16, <1>17, <1>18, <1>19
             DEF Next, Thread

\* What is left to show of a step, besides StepSmall.
LEMMA Restored ==
  ASSUME Small', TokenInv', disk' \in [Paths -> Seq(Pieces)], Fits(saved, OnFlash)',
         Fits(trade, InRam)', todo' \in Seq(Nat), device' \in [Systems -> Nat],
         Whole(trade', disk', lost'), Whole(saved', disk', lost'),
         pc' \in Fetching => trade'.files # <<>>,
         PhaseInv', MismatchInv', InstallInv', ParametersLossExplained'
  PROVE  IInv'
<1>1. TypeOK'
  BY TypedAgain DEF Small
<1>2. DownloadInv' /\ FlashInv'
  BY WholeNext
<1>3. QED BY <1>1, <1>2 DEF IInv

\* What holds before every step.
LEMMA Held ==
  ASSUME IInv
  PROVE  /\ TypeOK /\ disk \in [Paths -> Seq(Pieces)] /\ Fits(saved, OnFlash) /\ Fits(trade, InRam)
         /\ todo \in Seq(Nat) /\ device \in [Systems -> Nat]
         /\ Whole(trade, disk, lost) /\ Whole(saved, disk, lost)
BY Typed, WholeNow DEF IInv

\* The status file is one a download or an installation has written.
InOrder(s) ==
    s # NoInfo => /\ s.kind # "none" /\ s.files # <<>>
                  /\ s.kind = "update" => s.cur > Len(s.files)

LEMMA SavedNow ==
  ASSUME IInv
  PROVE  InOrder(saved) /\ (saved # NoInfo => Fits(saved, InRam))
<1>1. InOrder(saved)
  BY DEF IInv, PhaseInv, InOrder
<1>2. QED BY <1>1, Held, RamFitsFlash DEF InOrder

\* Parameters in use that a step leaves alone or writes anew.
LEMMA ParametersKept ==
  ASSUME IInv, pc # "rename", dropped \subseteq dropped',
         \A d \in Desc : d.kind = "PF" => \/ disk'[InUse(d)] = disk[InUse(d)]
                                          \/ disk'[InUse(d)] # <<>>
                                          \/ ~d.zip /\ d.name \in dropped'
  PROVE  ParametersLossExplained'
BY DEF IInv, ParametersLossExplained, InUse

\* Places in which there is no download and no installation.
Before == {"idle", "connect", "auth", "info", "task"}

LEMMA BeforeKeeps ==
  ASSUME IInv, Small', TokenInv', pc' \in Before, disk' = disk, device' = device,
         todo' \in Seq(Nat), Fits(trade, InRam)', Fits(saved, OnFlash)', InOrder(saved'),
         Whole(trade', disk', lost'), Whole(saved', disk', lost'), dropped \subseteq dropped',
         pc = "rename" => Next1.d.name \in dropped'
  PROVE  IInv'
<1>1. pc' \notin Fetching \cup Installing \cup {"wipe", "scrap"}
  BY DEF Before, Fetching, Installing
<1>2. PhaseInv'
  <2>1. NoInfo.kind = "none"
    BY DEF NoInfo, NoTrade
  <2>2. /\ saved' # NoInfo => saved'.kind # "none" /\ saved'.files # <<>>
        /\ saved'.kind = "update" => saved'.cur > Len(saved'.files)
    BY <2>1 DEF InOrder
  <2>3. QED BY <1>1, <2>2 DEF PhaseInv, Fetching, Installing
<1>3. MismatchInv' /\ InstallInv'
  BY <1>1 DEF MismatchInv, InstallInv, Fetching, Installing
<1>4. ParametersLossExplained'
  BY DEF IInv, ParametersLossExplained
<1>5. QED BY Held, <1>1, <1>2, <1>3, <1>4, Restored

\* The session ends or is not yet downloading; the flash is left alone.
Aside ==
    /\ pc' \in Before
    /\ trade' = trade \/ trade' = NoTrade
    /\ todo' = todo \/ todo' = <<>>
    /\ disk' = disk /\ saved' = saved /\ device' = device /\ lost' = lost
    /\ dropped \subseteq dropped'
    /\ pc = "rename" => Next1.d.name \in dropped'

LEMMA AsideKeeps ==
  ASSUME IInv, Small', TokenInv', Aside
  PROVE  IInv'
<1>1. Fits(trade, InRam)' /\ Whole(trade', disk', lost')
  BY Held, NothingFits, NothingIsWhole DEF Aside
<1>2. todo' \in Seq(Nat)
  BY Held, EmptySeq DEF Aside
<1>3. Fits(saved, OnFlash)' /\ Whole(saved', disk', lost') /\ InOrder(saved')
  BY Held, SavedNow DEF Aside
<1>4. QED BY <1>1, <1>2, <1>3, BeforeKeeps DEF Aside

\* Steps of the server and the repetition of a request.
Same ==
    /\ pc' = pc /\ trade' = trade /\ disk' = disk /\ saved' = saved /\ device' = device
    /\ todo' = todo /\ lost' = lost /\ dropped' = dropped

LEMMA SameKeeps ==
  ASSUME IInv, Small', TokenInv', Same
  PROVE  IInv'
<1>1. Fits(saved, OnFlash)' /\ Fits(trade, InRam)'
  BY Held DEF Same
<1>2. PhaseInv'
  BY DEF IInv, PhaseInv, Same, Current, Disowned, Gone
<1>3. MismatchInv'
  BY DEF IInv, MismatchInv, Same, Current
<1>4. Whole(trade', disk', lost') /\ Whole(saved', disk', lost')
  BY Held DEF Same
<1>5. InstallInv' /\ ParametersLossExplained'
  BY DEF IInv, InstallInv, ParametersLossExplained, Same, Next1, Doom
<1>6. pc' \in Fetching => trade'.files # <<>>
  BY DEF IInv, DownloadInv, Same
<1>7. QED BY Held, <1>1, <1>2, <1>3, <1>4, <1>5, <1>6, Restored DEF Same

\* Which steps these are.
LEMMA AsideSteps ==
  ASSUME IInv
  PROVE  /\ Start \/ Connect \/ DeviceAuth \/ TermInfoUpload \/ PowerCut => Aside
         /\ Publish \/ ExpireToken \/ UNCHANGED vars => Same
<1> USE DEF Aside, Same, server, flash, login, thread, marks, Fail, End, Before
<1>1. Start \/ Connect => Aside
  BY DEF Start, Connect
<1>2. DeviceAuth => Aside
  BY DEF DeviceAuth
<1>3. TermInfoUpload => Aside
  BY DEF TermInfoUpload
<1>4. PowerCut => Aside
  BY DEF PowerCut
<1>5. Publish \/ ExpireToken \/ UNCHANGED vars => Same
  BY DEF Publish, ExpireToken, vars
<1>6. QED BY <1>1, <1>2, <1>3, <1>4, <1>5

----------------------------------------------------------------------------
(* Requesting the task list and deleting another's download *)

\* What a new download starts with.
LEMMA FreshFacts ==
  ASSUME TypeOK, NEW needed \in NeededFiles, needed # <<>>
  PROVE  LET fresh == [i \in DOMAIN needed |-> Entry(task[needed[i]])]
         IN  /\ fresh \in Seq(Files) /\ fresh # <<>> /\ Len(fresh) \in Nat
             /\ DOMAIN fresh = 1..Len(fresh)
             /\ \A i \in DOMAIN fresh : fresh[i].st = "uncomplete" /\ fresh[i].pos = 0
             /\ \A i, j \in DOMAIN fresh : fresh[i].d.name = fresh[j].d.name => i = j
<1> DEFINE I == {i \in DOMAIN task : NeedDownFile(task[i])}
           fresh == [i \in DOMAIN needed |-> Entry(task[needed[i]])]
<1>1. /\ Len(task) \in Nat /\ DOMAIN task = 1..Len(task) /\ \A i \in DOMAIN task : task[i] \in Desc
      /\ \A i, j \in DOMAIN task : task[i].name = task[j].name => i = j
  BY Typed, TaskFacts
<1>2. I \in SUBSET Nat /\ IsFiniteSet(I)
  <2>1. IsFiniteSet(1..Len(task)) /\ I \subseteq 1..Len(task)
    BY <1>1, FS_Interval
  <2>2. IsFiniteSet(I)
    BY <2>1, FS_Subset
  <2>3. QED BY <1>1, <2>2
<1>3. /\ needed \in Seq(I) /\ DOMAIN needed = 1..Len(needed) /\ \A a \in DOMAIN needed : needed[a] \in I
      /\ \A a, b \in DOMAIN needed : needed[a] = needed[b] => a = b
  <2>1. \A i \in I : [j \in DOMAIN task |-> 0][i] \in Nat
    OBVIOUS
  <2>2. needed \in Ordered(I, [j \in DOMAIN task |-> 0])
    BY DEF NeededFiles
  <2>3. QED BY <1>2, <2>1, <2>2, OrderedFacts
<1>4. Len(needed) \in Nat /\ Len(needed) # 0
  BY <1>3, LenProperties, EmptySeq
<1>5. \A i \in 1..Len(needed) : fresh[i] = Entry(task[needed[i]]) /\ needed[i] \in DOMAIN task
  BY <1>3
<1>6. \A d \in Desc : Entry(d) \in Files /\ Entry(d).d = d /\ Entry(d).st = "uncomplete" /\ Entry(d).pos = 0
  BY DEF Entry, Files
<1>7. ASSUME NEW i \in 1..Len(needed)
      PROVE  fresh[i] \in Files
  <2>1. task[needed[i]] \in Desc
    BY <1>1, <1>5
  <2>2. Entry(task[needed[i]]) \in Files
    BY <1>6, <2>1
  <2>3. QED BY <1>5, <2>2
<1>8. fresh \in [1..Len(needed) -> Files]
  BY <1>3, <1>7
<1>9. fresh \in Seq(Files)
  BY <1>4, <1>8, SeqDef
<1>10. Len(fresh) = Len(needed) /\ DOMAIN fresh = 1..Len(fresh)
  BY <1>4, <1>8, <1>9, LenProperties
<1>11. fresh # <<>>
  BY <1>4, <1>9, <1>10, EmptySeq
<1>12. \A i \in DOMAIN fresh : fresh[i].st = "uncomplete" /\ fresh[i].pos = 0
  BY <1>1, <1>5, <1>6, <1>10
<1>13. ASSUME NEW i \in DOMAIN fresh, NEW j \in DOMAIN fresh, fresh[i].d.name = fresh[j].d.name
       PROVE  i = j
  <2>1. task[needed[i]].name = task[needed[j]].name
    BY <1>1, <1>5, <1>6, <1>10, <1>13
  <2>2. needed[i] = needed[j]
    BY <1>1, <1>5, <1>10, <2>1
  <2>3. QED BY <1>3, <1>10, <2>2
<1>14. QED BY <1>4, <1>9, <1>10, <1>11, <1>12, <1>13

\* A new download in memory.
Begins ==
    \E needed \in NeededFiles :
       /\ needed # <<>>
       /\ trade' = [NoTrade EXCEPT !.files = [i \in DOMAIN needed |-> Entry(task[needed[i]])]]

LEMMA BeginsFacts ==
  ASSUME TypeOK, Begins
  PROVE  /\ Fits(trade, InRam)' /\ trade'.kind = "task" /\ Fresh(trade')
         /\ trade'.files # <<>> /\ Whole(trade', disk', lost')
<1>1. PICK needed \in NeededFiles :
        /\ needed # <<>>
        /\ trade' = [NoTrade EXCEPT !.files = [i \in DOMAIN needed |-> Entry(task[needed[i]])]]
  BY DEF Begins
<1> DEFINE fresh == [i \in DOMAIN needed |-> Entry(task[needed[i]])]
<1>2. /\ fresh \in Seq(Files) /\ fresh # <<>> /\ Len(fresh) \in Nat /\ DOMAIN fresh = 1..Len(fresh)
      /\ \A i \in DOMAIN fresh : fresh[i].st = "uncomplete" /\ fresh[i].pos = 0
      /\ \A i, j \in DOMAIN fresh : fresh[i].d.name = fresh[j].d.name => i = j
  BY <1>1, FreshFacts
<1> HIDE DEF fresh
<1>3. trade' = [kind |-> "task", files |-> fresh, cur |-> 1, ctx |-> <<>>]
  BY <1>1 DEF NoTrade, fresh
<1>4. Fits(trade, InRam)'
  <2>1. fresh \in Seq(Files) /\ <<>> \in Seq(Pieces) /\ "task" \in InRam
    BY <1>2, PieceFacts DEF InRam
  <2>2. \A i \in DOMAIN fresh : fresh[i].pos <= fresh[i].d.size
    <3>1. \A i \in DOMAIN fresh : fresh[i] \in Files
      BY <1>2, ElementOfSeq
    <3>2. \A i \in DOMAIN fresh : fresh[i].d.size \in Nat
      BY <3>1, DescFacts DEF Files
    <3>3. QED BY <1>2, <3>2
  <2>3. 1 \in Nat \ {0} /\ 1 <= Len(fresh) + 1
    BY <1>2
  <2>4. Fits([kind |-> "task", files |-> fresh, cur |-> 1, ctx |-> <<>>], InRam)
    BY <2>1, <2>2, <2>3, FitsAgain
  <2>5. QED BY <1>3, <2>4
<1>5. trade'.kind = "task" /\ trade'.files = fresh /\ trade'.cur = 1
  BY <1>3
<1>6. Fresh(trade')
  BY <1>2, <1>5 DEF Fresh
<1>7. Whole(trade', disk', lost')
  BY <1>2, <1>4, <1>5, <1>6, FreshIsWhole
<1>8. QED BY <1>2, <1>4, <1>5, <1>6, <1>7

Resumed ==
    /\ pc = "task" /\ saved # NoInfo /\ trade' = saved
    /\ pc' = (IF saved.kind = "update" THEN "update" ELSE "download")
    /\ UNCHANGED <<disk, saved, device, lost, dropped, todo>>

Begun ==
    /\ pc = "task" /\ Begins
    /\ \/ saved = NoInfo /\ pc' = "download" /\ todo' = todo
       \/ saved # NoInfo /\ pc' = "wipe" /\ todo' = Doomed(saved)
    /\ UNCHANGED <<disk, saved, device, lost, dropped>>

LEMMA RequestFacts ==
  ASSUME RequestTask
  PROVE  Aside \/ Resumed \/ Begun
<1>1. pc = "task" /\ UNCHANGED <<disk, saved, device, lost, dropped>>
  BY DEF RequestTask, flash, marks
<1>2. PICK needed \in NeededFiles :
        LET fresh == [i \in DOMAIN needed |-> Entry(task[needed[i]])]
        IN  \/ Fail
            \/ /\ saved # NoInfo /\ trade' = saved
               /\ pc' = (IF saved.kind = "update" THEN "update" ELSE "download")
               /\ todo' = todo
            \/ /\ needed # <<>> /\ trade' = [NoTrade EXCEPT !.files = fresh]
               /\ \/ saved = NoInfo /\ pc' = "download" /\ todo' = todo
                  \/ saved # NoInfo /\ pc' = "wipe" /\ todo' = Doomed(saved)
  BY DEF RequestTask
<1>3. CASE Fail
  BY <1>1, <1>3 DEF Aside, Fail, End, Before
<1>4. CASE ~Fail
  BY <1>1, <1>2, <1>4 DEF Resumed, Begun, Begins
<1>5. QED BY <1>3, <1>4

LEMMA ResumedKeeps ==
  ASSUME IInv, Small', TokenInv', Resumed
  PROVE  IInv'
<1>1. /\ pc = "task" /\ saved # NoInfo /\ trade' = saved /\ saved' = saved /\ disk' = disk
      /\ lost' = lost /\ device' = device /\ todo' = todo /\ dropped' = dropped
  BY DEF Resumed
<1>2. /\ Fits(saved, InRam) /\ saved.kind \in InRam /\ saved.kind # "none" /\ saved.files # <<>>
      /\ saved.kind = "update" => saved.cur > Len(saved.files)
  BY <1>1, SavedNow, TradeFacts DEF InOrder
<1>3. Fits(saved, OnFlash)' /\ Fits(trade, InRam)'
  BY <1>1, <1>2, Held
<1>4. /\ pc' \in {"download", "update"} /\ (pc' = "download" => saved.kind = "task")
      /\ (pc' = "update" => saved.kind = "update")
  BY <1>2 DEF Resumed, InRam
<1>5. PhaseInv'
  BY <1>1, <1>2, <1>4 DEF PhaseInv, Fetching, Installing
<1>6. Whole(trade', disk', lost') /\ Whole(saved', disk', lost')
  BY <1>1, Held
<1>7. MismatchInv' /\ InstallInv'
  BY <1>4 DEF MismatchInv, InstallInv, Installing
<1>8. ParametersLossExplained'
  BY <1>1, ParametersKept
<1>9. QED BY <1>1, <1>2, <1>3, <1>5, <1>6, <1>7, <1>8, Held, Restored

\* The indices Tms_DelAllDownloadInfo goes through.
LEMMA DoomedFacts ==
  ASSUME NEW s, Fits(s, OnFlash)
  PROVE  Doomed(s) \in Seq(Nat) /\ \A k \in DOMAIN Doomed(s) : Doomed(s)[k] \in DOMAIN s.files
<1> DEFINE n == IF s.cur < Len(s.files) THEN s.cur ELSE Len(s.files)
<1>1. s.cur \in Nat \ {0} /\ Len(s.files) \in Nat /\ DOMAIN s.files = 1..Len(s.files)
  BY TradeFacts
<1>2. n \in Nat /\ n <= Len(s.files)
  BY <1>1
<1> HIDE DEF n
<1>3. Doomed(s) = [k \in 1..n |-> k]
  BY DEF Doomed, n
<1>4. Doomed(s) \in [1..n -> Nat]
  BY <1>2, <1>3
<1>5. Doomed(s) \in Seq(Nat)
  BY <1>2, <1>4, SeqDef
<1>6. \A k \in 1..n : k \in 1..Len(s.files)
  BY <1>1, <1>2
<1>7. QED BY <1>1, <1>3, <1>5, <1>6

LEMMA BegunKeeps ==
  ASSUME IInv, Small', TokenInv', Begun
  PROVE  IInv'
<1>1. /\ pc = "task" /\ saved' = saved /\ disk' = disk /\ lost' = lost /\ device' = device
      /\ dropped' = dropped
      /\ \/ saved = NoInfo /\ pc' = "download" /\ todo' = todo
         \/ saved # NoInfo /\ pc' = "wipe" /\ todo' = Doomed(saved)
  BY DEF Begun
<1>2. /\ Fits(trade, InRam)' /\ trade'.kind = "task" /\ Fresh(trade')
      /\ trade'.files # <<>> /\ Whole(trade', disk', lost')
  BY Held, BeginsFacts DEF Begun
<1>3. InOrder(saved') /\ Fits(saved, OnFlash)' /\ Whole(saved', disk', lost')
  BY <1>1, Held, SavedNow
<1>4. todo' \in Seq(Nat) /\ (pc' = "wipe" => \A k \in DOMAIN todo' : todo'[k] \in DOMAIN saved'.files)
  BY <1>1, Held, DoomedFacts
<1>5. PhaseInv'
  <2>1. NoInfo.kind = "none"
    BY DEF NoInfo, NoTrade
  <2>2. QED BY <1>1, <1>2, <1>3, <2>1 DEF PhaseInv, Fetching, Installing, InOrder
<1>6. MismatchInv' /\ InstallInv'
  BY <1>1, <1>4 DEF MismatchInv, InstallInv, Installing, Doom
<1>7. ParametersLossExplained'
  BY <1>1, ParametersKept
<1>8. QED BY <1>1, <1>2, <1>3, <1>4, <1>5, <1>6, <1>7, Held, Restored

\* A deletion that may fail.
LEMMA DeletedFacts ==
  ASSUME IInv, NEW p \in Paths, DeleteFile(p)
  PROVE  /\ disk' \in [Paths -> Seq(Pieces)] /\ lost \subseteq lost'
         /\ \A q \in Paths : q # p => disk'[q] = disk[q]
         /\ Whole(trade, disk', lost') /\ Whole(saved, disk', lost')
<1>1. disk \in [Paths -> Seq(Pieces)]
  BY Held
<1>2. /\ disk' \in [Paths -> Seq(Pieces)] /\ lost \subseteq lost'
      /\ \A q \in Paths : q # p => disk'[q] = disk[q]
      /\ \A q \in Paths : disk'[q] = disk[q] \/ q \in lost'
  BY <1>1, PieceFacts DEF DeleteFile
<1>3. \A d \in Desc : disk'[DownloadPath(d)] = disk[DownloadPath(d)] \/ DownloadPath(d) \in lost'
  BY <1>2, PathFacts
<1>4. Whole(trade, disk', lost') /\ Whole(saved, disk', lost')
  BY <1>2, <1>3, Held, WholeKept
<1>5. QED BY <1>2, <1>4

\* The rest of a list of indices.
LEMMA TailFacts ==
  ASSUME todo \in Seq(Nat), todo # <<>>, NEW S, \A k \in DOMAIN todo : todo[k] \in S
  PROVE  /\ Tail(todo) \in Seq(Nat) /\ \A k \in DOMAIN Tail(todo) : Tail(todo)[k] \in S
         /\ todo[1] \in S /\ Head(todo) = todo[1] /\ (Len(todo) # 1 => Tail(todo) # <<>>)
<1>1. Len(todo) \in Nat /\ Len(todo) # 0 /\ DOMAIN todo = 1..Len(todo)
  BY EmptySeq, LenProperties
<1>2. /\ Tail(todo) \in Seq(Nat) /\ Len(Tail(todo)) = Len(todo) - 1
      /\ \A k \in 1..(Len(todo) - 1) : Tail(todo)[k] = todo[k + 1]
      /\ Head(todo) = todo[1]
  BY HeadTailProperties
<1>3. DOMAIN Tail(todo) = 1..(Len(todo) - 1)
  BY <1>2, LenProperties
<1>4. \A k \in 1..(Len(todo) - 1) : k + 1 \in 1..Len(todo)
  BY <1>1
<1>5. \A k \in DOMAIN Tail(todo) : Tail(todo)[k] \in S
  BY <1>1, <1>2, <1>3, <1>4
<1>6. Len(todo) # 1 => Tail(todo) # <<>>
  BY <1>1, <1>2, EmptySeq
<1>7. QED BY <1>1, <1>2, <1>5, <1>6

\* Which parameters in use a deletion can hit.
LEMMA ImageFacts ==
  ASSUME NEW e \in Files, NEW d \in Desc, d.kind = "PF", InUse(d) = ImagePath(e)
  PROVE  ~d.zip /\ d.name = e.d.name /\ e.d.kind = "PF" /\ ~e.out
<1>1. e.d \in Desc /\ d.zip \in BOOLEAN /\ e.out \in BOOLEAN
  BY DescFacts DEF Files
<1>2. d.name = e.d.name /\ (IF d.zip THEN "/ext/" ELSE "") = (IF e.out THEN ".bin" ELSE "")
  BY DEF InUse, ImagePath
<1>3. e.d.kind = "PF"
  BY <1>1, <1>2, FilesAssumption
<1>4. QED BY <1>1, <1>2, <1>3

LEMMA DelDownloadKeeps ==
  ASSUME IInv, Small', TokenInv', DelDownload
  PROVE  IInv'
<1> DEFINE e == Doom[Head(todo)]
           p == ImagePath(e)
<1>1. /\ pc \in {"wipe", "scrap"} /\ pc' = pc /\ todo # <<>> /\ DeleteFile(p)
      /\ dropped' = (IF e.d.kind = "PF" /\ disk' # disk THEN dropped \cup {e.d.name} ELSE dropped)
      /\ todo' = Tail(todo) /\ saved' = saved /\ trade' = trade /\ device' = device
  BY DEF DelDownload
<1>2. /\ Tail(todo) \in Seq(Nat) /\ \A k \in DOMAIN Tail(todo) : Tail(todo)[k] \in DOMAIN Doom
      /\ Head(todo) \in DOMAIN Doom
  <2>1. \A k \in DOMAIN todo : todo[k] \in DOMAIN Doom
    BY <1>1 DEF IInv, InstallInv
  <2>2. QED BY <1>1, <2>1, Held, TailFacts
<1>3. e \in Files /\ e.d \in Desc
  BY <1>2, Held, TradeFacts DEF Doom
<1> HIDE DEF e
<1>4. p \in Paths
  BY <1>3, PathFacts
<1>5. /\ disk' \in [Paths -> Seq(Pieces)] /\ lost \subseteq lost'
      /\ \A q \in Paths : q # p => disk'[q] = disk[q]
      /\ Whole(trade, disk', lost') /\ Whole(saved, disk', lost')
  BY <1>1, <1>4, DeletedFacts
<1>6. Fits(saved, OnFlash)' /\ Fits(trade, InRam)'
  BY <1>1, Held
<1>7. PhaseInv'
  BY <1>1 DEF IInv, PhaseInv, Fetching, Installing
<1>8. MismatchInv' /\ InstallInv'
  BY <1>1, <1>2 DEF MismatchInv, InstallInv, Doom, Installing
<1>9. ParametersLossExplained'
  <2>1. ASSUME NEW d \in Desc, d.kind = "PF"
        PROVE  disk'[InUse(d)] = disk[InUse(d)] \/ (~d.zip /\ d.name \in dropped')
    <3>1. CASE InUse(d) # p
      BY <1>5, <3>1, InUseFacts
    <3>2. CASE InUse(d) = p
      <4>1. ~d.zip /\ d.name = e.d.name /\ e.d.kind = "PF"
        BY <1>3, <2>1, <3>2, ImageFacts
      <4>2. QED BY <1>1, <4>1
    <3>3. QED BY <3>1, <3>2
  <2>2. QED BY <1>1, <2>1, ParametersKept
<1>10. pc' \notin Fetching
  BY <1>1 DEF Fetching
<1>11. QED BY <1>1, <1>2, <1>5, <1>6, <1>7, <1>8, <1>9, <1>10, Held, Restored

\* The status file is gone, or what it lists is given up.
LEMMA StatusFacts ==
  ASSUME IInv, DeleteStatus, disk' = disk
  PROVE  /\ Fits(saved, OnFlash)' /\ InOrder(saved') /\ Whole(saved', disk', lost')
         /\ \/ saved' = NoInfo
            \/ saved' = saved /\ Disowned(saved)'
<1>1. CASE saved' = NoInfo /\ lost' = {}
  BY <1>1, NothingFits, NothingIsWhole DEF InOrder
<1>2. CASE /\ saved' = saved
           /\ lost' = lost \cup {DownloadPath(saved.files[i].d) : i \in DOMAIN saved.files}
  <2>1. \A i \in DOMAIN saved.files : DownloadPath(saved.files[i].d) \in lost'
    BY <1>2
  <2>2. Whole(saved, disk', lost')
    BY <2>1, Held, DisownedIsWhole
  <2>3. QED BY <1>2, <2>1, <2>2, Held, SavedNow DEF Disowned, Gone
<1>3. QED BY <1>1, <1>2 DEF DeleteStatus

LEMMA DelDownStatusKeeps ==
  ASSUME IInv, Small', TokenInv', DelDownStatus
  PROVE  IInv'
<1>1. /\ pc \in {"wipe", "scrap"} /\ DeleteStatus /\ disk' = disk /\ device' = device
      /\ dropped' = dropped
      /\ \/ pc = "wipe" /\ pc' = "download" /\ trade' = trade /\ todo' = todo
         \/ pc = "scrap" /\ Fail
  BY DEF DelDownStatus
<1>2. /\ Fits(saved, OnFlash)' /\ InOrder(saved') /\ Whole(saved', disk', lost')
      /\ saved' = NoInfo \/ Disowned(saved)'
  BY <1>1, StatusFacts
<1>3. CASE pc = "wipe" /\ pc' = "download" /\ trade' = trade /\ todo' = todo
  <2>1. /\ trade.kind = "task" /\ Fresh(trade) /\ trade.files # <<>> /\ Fits(trade, InRam)
    BY <1>3, Held DEF IInv, PhaseInv, Fresh
  <2>2. Progress(trade)
    BY <2>1, Held DEF Whole, Listed
  <2>3. Whole(trade', disk', lost')
    BY <1>3, <2>1, <2>2, FreshIsWhole DEF Progress
  <2>4. PhaseInv'
    <3>1. NoInfo.kind = "none"
      BY DEF NoInfo, NoTrade
    <3>2. QED BY <1>2, <1>3, <2>1, <3>1 DEF PhaseInv, Fetching, Installing, InOrder
  <2>5. MismatchInv' /\ InstallInv'
    BY <1>3 DEF MismatchInv, InstallInv, Installing
  <2>6. ParametersLossExplained'
    BY <1>1, <1>3, ParametersKept
  <2>7. QED BY <1>1, <1>2, <1>3, <2>1, <2>3, <2>4, <2>5, <2>6, Held, Restored
<1>4. CASE pc = "scrap" /\ Fail
  <2>1. pc' \in Before /\ trade' = NoTrade /\ todo' = todo
    BY <1>4 DEF Fail, End, Before
  <2>2. Fits(trade, InRam)' /\ Whole(trade', disk', lost')
    BY <2>1, NothingFits, NothingIsWhole
  <2>3. QED BY <1>1, <1>2, <1>4, <2>1, <2>2, Held, BeforeKeeps
<1>5. QED BY <1>1, <1>3, <1>4

LEMMA FinishKeeps ==
  ASSUME IInv, Small', TokenInv', FinishUpdate
  PROVE  IInv'
<1>1. /\ pc = "finish" /\ DeleteStatus /\ disk' = disk /\ device' = device /\ dropped' = dropped
      /\ pc' \in Before /\ trade' = NoTrade /\ todo' = todo
  BY DEF FinishUpdate, End, Before
<1>2. Fits(saved, OnFlash)' /\ InOrder(saved') /\ Whole(saved', disk', lost')
  BY <1>1, StatusFacts
<1>3. Fits(trade, InRam)' /\ Whole(trade', disk', lost')
  BY <1>1, NothingFits, NothingIsWhole
<1>4. QED BY <1>1, <1>2, <1>3, Held, BeforeKeeps

----------------------------------------------------------------------------
(* One answered request *)

LEMMA AnswerFacts ==
  ASSUME TypeOK, NEW e \in Files, e.pos < e.d.size, NEW piece \in Answers(e)
  PROVE  piece \in Pieces /\ (piece = Bad \/ piece = <<e.d.ver, piece[2], e.pos + 1>>)
<1> DEFINE d == e.d
           s == Served(d)
<1>1. /\ d \in Desc /\ e.pos \in Nat /\ task \in Tasks
      /\ \A i \in DOMAIN task : task[i] \in Desc
  BY Typed, TaskFacts DEF Files
<1>2. s \in Desc /\ s.ver = d.ver
  <2>1. CASE \E i \in DOMAIN task : task[i].name = d.name /\ task[i].ver = d.ver
    <3>1. \E x \in {task[i] : i \in DOMAIN task} : x.name = d.name /\ x.ver = d.ver
      BY <2>1
    <3>2. s = CHOOSE x \in {task[i] : i \in DOMAIN task} : x.name = d.name /\ x.ver = d.ver
      BY <2>1 DEF Served
    <3>3. s \in {task[i] : i \in DOMAIN task} /\ s.ver = d.ver
      BY <3>1, <3>2
    <3>4. QED BY <1>1, <3>3
  <2>2. CASE ~ \E i \in DOMAIN task : task[i].name = d.name /\ task[i].ver = d.ver
    BY <1>1, <2>2 DEF Served
  <2>3. QED BY <2>1, <2>2
<1>3. piece = Bad \/ (e.pos + 1 \in 1..s.size /\ piece = Content(s)[e.pos + 1])
  BY DEF Answers
<1> HIDE DEF s
<1>4. \A i \in 1..s.size : Content(s)[i] = <<s.ver, s.build, i>> /\ Content(s)[i] \in Pieces
  BY <1>2, ContentFacts
<1>5. CASE piece = Bad
  BY <1>5, PieceFacts
<1>6. CASE e.pos + 1 \in 1..s.size /\ piece = Content(s)[e.pos + 1]
  <2>1. piece \in Pieces /\ piece = <<d.ver, s.build, e.pos + 1>>
    BY <1>2, <1>4, <1>6
  <2>2. piece[2] = s.build
    BY <2>1
  <2>3. QED BY <2>1, <2>2
<1>7. QED BY <1>3, <1>5, <1>6

\* The effect on the file's entry f: a wrong, a complete or an unfinished file.
Fetched(piece, f) ==
    LET e   == Current
        ctx == Append(Context(e), piece)
    IN  /\ piece = Bad \/ piece = <<e.d.ver, piece[2], e.pos + 1>>
        /\ f.d = e.d
        /\ disk' = [disk EXCEPT ![DownloadPath(e.d)] = Patch(@, e.pos, piece)]
        /\ trade' = [kind |-> trade.kind, files |-> [trade.files EXCEPT ![trade.cur] = f],
                     cur |-> IF f.st = "complete" THEN trade.cur + 1 ELSE trade.cur, ctx |-> ctx]
        /\ \/ /\ pc' = "discard" /\ e.pos + 1 = e.d.size /\ ctx # Content(e.d)
              /\ f.pos = 0 /\ f.st = "uncomplete"
           \/ /\ pc' = "commit" /\ e.pos + 1 = e.d.size /\ ctx = Content(e.d)
              /\ f.pos = e.pos + 1 /\ f.st = "complete"
           \/ /\ pc' = "commit" /\ e.pos + 1 # e.d.size
              /\ f.pos = e.pos + 1 /\ f.st = "uncomplete"

LEMMA CurrentFacts ==
  ASSUME TypeOK, Downloading
  PROVE  /\ trade.cur \in DOMAIN trade.files /\ Current \in Files /\ Current.d \in Desc
         /\ Current.pos \in Nat /\ Current.d.size \in Nat /\ Current.pos < Current.d.size
         /\ Current.st = "uncomplete" /\ pc = "download"
<1>1. /\ trade.cur \in Nat \ {0} /\ Len(trade.files) \in Nat
      /\ DOMAIN trade.files = 1..Len(trade.files)
      /\ \A i \in DOMAIN trade.files :
            /\ trade.files[i] \in Files /\ trade.files[i].d \in Desc
            /\ trade.files[i].d.size \in Nat /\ trade.files[i].pos \in Nat
  BY Typed, TradeFacts
<1>2. trade.cur \in DOMAIN trade.files
  BY <1>1 DEF Downloading
<1>3. QED BY <1>1, <1>2 DEF Downloading, Current

LEMMA FetchFacts ==
  ASSUME TypeOK, FetchPiece
  PROVE  /\ \E piece \in Pieces, f \in Files : f.pos <= f.d.size /\ Fetched(piece, f)
         /\ Downloading /\ UNCHANGED <<saved, device, todo, lost, dropped>>
<1> DEFINE e == Current
           c == trade.cur
<1>1. Downloading /\ UNCHANGED <<saved, device, todo, lost, dropped>>
  BY DEF FetchPiece, marks
<1>2. PICK piece \in Answers(e) :
        LET ctx == Append(Context(e), piece)
            all == e.pos + 1 = e.d.size
            ok  == Md5Matches(ctx, e.d)
        IN  /\ disk' = [disk EXCEPT ![DownloadPath(e.d)] = Patch(@, e.pos, piece)]
            /\ trade' = [trade EXCEPT
                    !.ctx = ctx,
                    !.files[trade.cur].pos = IF all /\ ~ok THEN 0 ELSE e.pos + 1,
                    !.files[trade.cur].st = IF all /\ ok THEN "complete" ELSE @,
                    !.cur = IF all /\ ok THEN @ + 1 ELSE @]
            /\ pc' = IF all /\ ~ok THEN "discard" ELSE "commit"
  BY DEF FetchPiece
<1>3. /\ c \in DOMAIN trade.files /\ e \in Files /\ e.d \in Desc /\ e.pos \in Nat
      /\ e.d.size \in Nat /\ e.pos < e.d.size /\ e.st = "uncomplete"
  BY <1>1, CurrentFacts
<1>4. piece \in Pieces /\ (piece = Bad \/ piece = <<e.d.ver, piece[2], e.pos + 1>>)
  BY <1>2, <1>3, AnswerFacts
<1> DEFINE ctx == Append(Context(e), piece)
           all == e.pos + 1 = e.d.size
           ok  == Md5Matches(ctx, e.d)
           pos == IF all /\ ~ok THEN 0 ELSE e.pos + 1
           st  == IF all /\ ok THEN "complete" ELSE "uncomplete"
           f   == [e EXCEPT !.pos = pos, !.st = st]
<1>5. /\ f \in Files /\ f.d = e.d /\ f.pos = pos /\ f.st = st /\ f.pos <= f.d.size
  <2>1. pos \in Nat /\ st \in {"uncomplete", "complete", "update"} /\ pos <= e.d.size
    BY <1>3
  <2> HIDE DEF pos, st
  <2>2. QED BY <1>3, <2>1 DEF Files
<1>6. trade' = [kind |-> trade.kind, files |-> [trade.files EXCEPT ![c] = f],
                cur |-> IF st = "complete" THEN c + 1 ELSE c, ctx |-> ctx]
  <2>1. trade = [kind |-> trade.kind, files |-> trade.files, cur |-> c, ctx |-> trade.ctx]
    BY Typed, TradeFacts
  <2> DEFINE g == [trade.files EXCEPT ![c].pos = pos, ![c].st = IF all /\ ok THEN "complete" ELSE @]
  <2>2. trade' = [trade EXCEPT !.ctx = ctx, !.files = g, !.cur = IF all /\ ok THEN c + 1 ELSE c]
    BY <1>2, <1>3
  <2>3. g = [trade.files EXCEPT ![c] = f]
    BY <1>3 DEF Current
  <2>4. (IF all /\ ok THEN c + 1 ELSE c) = IF st = "complete" THEN c + 1 ELSE c
    OBVIOUS
  <2> HIDE DEF g, f, ctx, all, ok, st
  <2>5. QED BY <2>1, <2>2, <2>3, <2>4
<1>7. \/ /\ pc' = "discard" /\ all /\ ctx # Content(e.d) /\ pos = 0 /\ st = "uncomplete"
      \/ /\ pc' = "commit" /\ all /\ ctx = Content(e.d) /\ pos = e.pos + 1 /\ st = "complete"
      \/ /\ pc' = "commit" /\ ~all /\ pos = e.pos + 1 /\ st = "uncomplete"
  BY <1>2 DEF Md5Matches
<1>8. Fetched(piece, f)
  <2>1. disk' = [disk EXCEPT ![DownloadPath(e.d)] = Patch(@, e.pos, piece)]
    BY <1>2
  <2> HIDE DEF f, pos, st
  <2>2. QED BY <1>4, <1>5, <1>6, <1>7, <2>1 DEF Fetched
<1>9. QED BY <1>1, <1>4, <1>5, <1>8

LEMMA FetchKeeps ==
  ASSUME IInv, Small', TokenInv', FetchPiece
  PROVE  IInv'
<1> DEFINE i == trade.cur
           e == Current
           path == DownloadPath(e.d)
           c0 == Context(e)
           s0 == disk[path]
<1>1. /\ TypeOK /\ disk \in [Paths -> Seq(Pieces)] /\ Fits(saved, OnFlash) /\ Fits(trade, InRam)
      /\ todo \in Seq(Nat) /\ device \in [Systems -> Nat]
  BY Held
<1>2. /\ Downloading
      /\ saved' = saved /\ device' = device /\ todo' = todo /\ lost' = lost /\ dropped' = dropped
  BY <1>1, FetchFacts
<1>3. /\ i \in DOMAIN trade.files /\ e \in Files /\ e.d \in Desc /\ e.pos \in Nat
      /\ e.d.size \in Nat /\ e.pos < e.d.size /\ e.st = "uncomplete" /\ pc = "download"
      /\ e = trade.files[i]
  BY <1>1, <1>2, CurrentFacts DEF Current
<1>4. PICK piece \in Pieces, f \in Files : f.pos <= f.d.size /\ Fetched(piece, f)
  BY <1>1, FetchFacts
<1> DEFINE ctx == Append(c0, piece)
           s1 == Patch(s0, e.pos, piece)
           fs == [trade.files EXCEPT ![i] = f]
           next == IF f.st = "complete" THEN i + 1 ELSE i
<1>5. /\ piece = Bad \/ piece = <<e.d.ver, piece[2], e.pos + 1>>
      /\ f.d = e.d
      /\ disk' = [disk EXCEPT ![path] = s1]
      /\ trade' = [kind |-> trade.kind, files |-> fs, cur |-> next, ctx |-> ctx]
  BY <1>4 DEF Fetched
<1>6. \/ /\ pc' = "discard" /\ e.pos + 1 = e.d.size /\ ctx # Content(e.d)
         /\ f.pos = 0 /\ f.st = "uncomplete"
      \/ /\ pc' = "commit" /\ e.pos + 1 = e.d.size /\ ctx = Content(e.d)
         /\ f.pos = e.pos + 1 /\ f.st = "complete"
      \/ /\ pc' = "commit" /\ e.pos + 1 # e.d.size
         /\ f.pos = e.pos + 1 /\ f.st = "uncomplete"
  BY <1>4 DEF Fetched
<1>7. /\ trade.kind = "task" /\ trade.files # <<>> /\ Progress(trade) /\ ContextOf(trade)
      /\ HasFiles(trade, disk, lost) /\ HasPart(trade, disk, lost)
      /\ saved = trade \/ saved = NoInfo \/ Disowned(saved)
  <2>1. /\ trade.kind = "task" /\ trade.files # <<>>
        /\ saved = trade \/ saved = NoInfo \/ Disowned(saved)
    BY <1>3 DEF IInv, PhaseInv, DownloadInv, Fetching
  <2>2. QED BY <2>1, Held DEF Whole, Listed
<1>8. /\ trade.files \in Seq(Files) /\ Len(trade.files) \in Nat /\ DOMAIN trade.files = 1..Len(trade.files)
      /\ trade.ctx \in Seq(Pieces) /\ Len(trade.ctx) \in Nat /\ DOMAIN trade.ctx = 1..Len(trade.ctx)
      /\ i \in Nat \ {0} /\ i <= Len(trade.files)
      /\ \A j \in DOMAIN trade.files : trade.files[j] \in Files /\ trade.files[j].d \in Desc
  BY <1>1, <1>3, TradeFacts
\* the context
<1>9. /\ c0 \in Seq(Pieces) /\ Len(c0) = e.pos
      /\ \A k \in 1..e.pos : c0[k] = Bad \/ c0[k] = <<e.d.ver, c0[k][2], k>>
  <2>1. CASE e.pos = 0
    <3>1. c0 = <<>>
      BY <2>1 DEF Context
    <3>2. \A x : x = <<>> => x \in Seq(Pieces) /\ Len(x) = 0
      BY EmptySeq
    <3>3. QED BY <2>1, <3>1, <3>2
  <2>2. CASE e.pos # 0
    <3>1. c0 = trade.ctx
      BY <2>2 DEF Context
    <3>2. Partial(trade)
      BY <1>3, <1>8, <2>2 DEF Partial
    <3>3. Len(c0) = e.pos /\ Answered(c0, e.d)
      BY <1>3, <1>7, <3>1, <3>2 DEF ContextOf
    <3>4. DOMAIN c0 = 1..e.pos /\ c0 \in Seq(Pieces)
      BY <1>8, <3>1, <3>3
    <3>5. QED BY <3>3, <3>4 DEF Answered
  <2>3. QED BY <2>1, <2>2
<1> HIDE DEF c0
<1>10. /\ ctx \in Seq(Pieces) /\ Len(ctx) = e.pos + 1 /\ DOMAIN ctx = 1..(e.pos + 1)
       /\ \A k \in 1..e.pos : ctx[k] = c0[k]
       /\ ctx[e.pos + 1] = piece
  <2>1. /\ ctx \in Seq(Pieces) /\ Len(ctx) = Len(c0) + 1
        /\ \A k \in 1..Len(c0) : ctx[k] = c0[k]
        /\ ctx[Len(c0) + 1] = piece
    BY <1>9, AppendProperties
  <2>2. DOMAIN ctx = 1..Len(ctx)
    BY <2>1, LenProperties
  <2>3. QED BY <1>9, <2>1, <2>2
<1> HIDE DEF ctx
<1>11. Answered(ctx, e.d)
  <2>1. \A k \in 1..(e.pos + 1) : k \in 1..e.pos \/ k = e.pos + 1
    BY <1>3
  <2>2. QED BY <1>5, <1>9, <1>10, <2>1 DEF Answered
\* the record of the download
<1>12. next \in Nat \ {0} /\ next <= Len(trade.files) + 1 /\ (next = i \/ next = i + 1)
  BY <1>8
<1>13. /\ fs \in Seq(Files) /\ Len(fs) = Len(trade.files) /\ DOMAIN fs = DOMAIN trade.files
       /\ fs[i] = f /\ \A j \in DOMAIN trade.files : j # i => fs[j] = trade.files[j]
       /\ Fits([kind |-> trade.kind, files |-> fs, cur |-> next, ctx |-> ctx], InRam)
  BY <1>1, <1>3, <1>4, <1>10, <1>12, FileFits
<1>14. /\ trade'.kind = "task" /\ trade'.files = fs /\ trade'.cur = next /\ trade'.ctx = ctx
       /\ Fits(trade, InRam)'
  BY <1>5, <1>7, <1>13
<1> HIDE DEF fs, next
<1>15. Progress(trade')
  <2>1. /\ \A j \in DOMAIN trade.files : j < i => trade.files[j].st # "uncomplete"
        /\ \A j \in DOMAIN trade.files : j >= i => trade.files[j].st = "uncomplete"
        /\ \A j \in DOMAIN trade.files : j > i => trade.files[j].pos = 0
        /\ \A j, k \in DOMAIN trade.files : trade.files[j].d.name = trade.files[k].d.name => j = k
    BY <1>7 DEF Progress
  <2>2. fs # <<>>
    BY <1>8, <1>13, EmptySeq
  <2>3. \A j \in DOMAIN fs : fs[j].d = trade.files[j].d
    BY <1>3, <1>5, <1>13
  <2>4. \A j, k \in DOMAIN fs : fs[j].d.name = fs[k].d.name => j = k
    BY <1>13, <2>1, <2>3
  <2>5. (f.st = "complete" /\ next = i + 1) \/ (f.st = "uncomplete" /\ next = i)
    BY <1>6 DEF next
  <2>6. ASSUME NEW j \in DOMAIN fs
        PROVE  /\ j < next => fs[j].st # "uncomplete"
               /\ j >= next => fs[j].st = "uncomplete"
               /\ j > next => fs[j].pos = 0
    <3>1. j \in DOMAIN trade.files /\ j \in Nat
      BY <1>8, <1>13
    <3>2. CASE j = i
      BY <1>8, <1>13, <2>5, <3>2
    <3>3. CASE j # i
      <4>1. fs[j] = trade.files[j]
        BY <1>13, <3>1, <3>3
      <4>2. (j < next <=> j < i) /\ (j >= next <=> j > i) /\ (j > next => j > i)
        BY <1>8, <2>5, <3>1, <3>3
      <4>3. QED BY <2>1, <3>1, <4>1, <4>2, <1>8
    <3>4. QED BY <3>2, <3>3
  <2>7. QED BY <1>14, <2>2, <2>4, <2>6 DEF Progress
<1>16. /\ pc' = "discard" => next = i /\ ~Partial(trade')
       /\ f.st = "complete" => ~Partial(trade')
       /\ pc' = "commit" /\ f.st # "complete" => next = i
  <2>1. f.st = "complete" => ~Partial(trade')
    <3>1. \A j \in DOMAIN trade.files : j > i => fs[j].pos = 0
      BY <1>7, <1>8, <1>13 DEF Progress
    <3>2. f.st = "complete" => next = i + 1
      BY DEF next
    <3>3. ASSUME f.st = "complete", next <= Len(fs)
          PROVE  fs[next].pos = 0
      <4>1. next = i + 1 /\ next \in DOMAIN trade.files
        BY <1>8, <1>13, <3>2, <3>3
      <4>2. QED BY <1>8, <3>1, <4>1
    <3>4. QED BY <1>14, <3>3 DEF Partial
  <2>2. pc' = "discard" => next = i /\ ~Partial(trade')
    <3>1. pc' = "discard" => next = i /\ f.pos = 0
      BY <1>6 DEF next
    <3>2. QED BY <1>13, <1>14, <3>1 DEF Partial
  <2>3. QED BY <2>1, <2>2 DEF next
<1>17. ContextOf(trade')
  <2>1. CASE pc' = "commit" /\ f.st # "complete"
    <3>1. trade'.files[trade'.cur] = f /\ f.pos = e.pos + 1 /\ f.d = e.d
      BY <1>5, <1>6, <1>13, <1>14, <1>16, <2>1
    <3>2. QED BY <1>10, <1>11, <1>14, <3>1 DEF ContextOf
  <2>2. QED BY <1>6, <1>16, <2>1 DEF ContextOf
<1>18. trade'.files # <<>>
  BY <1>8, <1>13, <1>14, EmptySeq
<1>19. pc' = "discard" => Current' = f
  BY <1>13, <1>14, <1>16 DEF Current
<1>20. MismatchInv'
  BY <1>5, <1>6, <1>10, <1>11, <1>14, <1>19 DEF MismatchInv
<1>21. pc' \in {"discard", "commit"}
  BY <1>6
<1>22. PhaseInv'
  <2>1. pc' = "discard" => trade'.cur <= Len(trade'.files) /\ Current'.pos = 0
    BY <1>6, <1>8, <1>13, <1>14, <1>16, <1>19
  <2>2. /\ saved' # NoInfo => saved'.kind # "none" /\ saved'.files # <<>>
        /\ saved'.kind = "update" => saved'.cur > Len(saved'.files)
    BY <1>2 DEF IInv, PhaseInv
  <2>3. QED BY <1>14, <1>21, <2>1, <2>2 DEF PhaseInv, Installing
\* the flash
<1>23. /\ path \in Paths /\ s0 \in Seq(Pieces) /\ Len(s0) \in Nat
  BY <1>1, <1>3, PathFacts, LenProperties
<1> HIDE DEF s0
<1>24. /\ s1 \in Seq(Pieces) /\ s1 # <<>> /\ Len(s1) \in Nat /\ Len(s1) >= e.pos + 1 /\ s1[e.pos + 1] = piece
       /\ \A k \in 1..Len(s0) : k # e.pos + 1 => s1[k] = s0[k]
  <2>1. e.pos \in Nat /\ piece \in Pieces
    BY <1>3
  <2>2. /\ s1 \in Seq(Pieces) /\ s1 # <<>> /\ Len(s1) >= e.pos + 1 /\ s1[e.pos + 1] = piece
        /\ \A k \in 1..Len(s0) : k # e.pos + 1 => s1[k] = s0[k]
    BY <1>23, <2>1, PatchFacts
  <2>3. QED BY <2>2, LenProperties
<1> HIDE DEF s1
<1>25. /\ disk' \in [Paths -> Seq(Pieces)] /\ disk'[path] = s1
       /\ \A p \in Paths : p # path => disk'[p] = disk[p]
  BY <1>1, <1>5, <1>23, <1>24
<1>26. \A j \in DOMAIN trade.files : j # i =>
         /\ DownloadPath(trade.files[j].d) # path /\ DownloadPath(trade.files[j].d) \in Paths
  <2>1. ASSUME NEW j \in DOMAIN trade.files, j # i
        PROVE  DownloadPath(trade.files[j].d) # path /\ DownloadPath(trade.files[j].d) \in Paths
    <3>1. trade.files[j].d.name # e.d.name
      BY <1>3, <1>7, <2>1 DEF Progress
    <3>2. /\ DownloadPath(trade.files[j].d)[1] = trade.files[j].d.name
          /\ DownloadPath(trade.files[j].d) \in Paths
      BY <1>8, PathFacts
    <3>3. path[1] = e.d.name
      BY <1>3, PathFacts
    <3>4. QED BY <3>1, <3>2, <3>3
  <2>2. QED BY <2>1
<1> HIDE DEF path
<1>27. ASSUME NEW j \in DOMAIN trade.files, j # i, trade.files[j].st = "complete"
       PROVE  \/ Holds(disk'[DownloadPath(trade.files[j].d)], trade.files[j].d)
              \/ DownloadPath(trade.files[j].d) \in lost
  <2>1. \/ Holds(disk[DownloadPath(trade.files[j].d)], trade.files[j].d)
        \/ DownloadPath(trade.files[j].d) \in lost
    BY <1>7, <1>27 DEF HasFiles
  <2>2. disk'[DownloadPath(trade.files[j].d)] = disk[DownloadPath(trade.files[j].d)]
    BY <1>25, <1>26, <1>27
  <2>3. QED BY <2>1, <2>2
<1>28. ASSUME path \notin lost
       PROVE  e.pos # 0 => Len(s0) >= e.pos /\ \A k \in 1..e.pos : s0[k] = c0[k]
  <2>1. ASSUME e.pos # 0
        PROVE  Len(s0) >= e.pos /\ \A k \in 1..e.pos : s0[k] = c0[k]
    <3>1. Partial(trade) /\ c0 = trade.ctx
      BY <1>3, <1>8, <2>1 DEF Partial, c0, Context
    <3>2. QED BY <1>3, <1>7, <1>28, <3>1 DEF HasPart, s0, path
  <2>2. QED BY <2>1
<1>29. ASSUME path \notin lost
       PROVE  \A k \in 1..(e.pos + 1) : s1[k] = ctx[k]
  <2>1. ASSUME NEW k \in 1..(e.pos + 1)
        PROVE  s1[k] = ctx[k]
    <3>1. CASE k = e.pos + 1
      BY <1>10, <1>24, <3>1
    <3>2. CASE k # e.pos + 1
      <4>1. e.pos # 0 /\ k \in 1..e.pos
        BY <1>3, <3>2
      <4>2. k \in 1..Len(s0) /\ s0[k] = c0[k]
        BY <1>3, <1>23, <1>28, <1>29, <4>1
      <4>3. s1[k] = s0[k] /\ ctx[k] = c0[k]
        BY <1>10, <1>24, <3>2, <4>1, <4>2
      <4>4. QED BY <4>2, <4>3
    <3>3. QED BY <3>1, <3>2
  <2>2. QED BY <2>1
<1>30. disk'[DownloadPath(e.d)] = s1 /\ path = DownloadPath(e.d)
  BY <1>25 DEF path
<1>31. HasFiles(trade', disk', lost')
  <2>1. ASSUME f.st = "complete", path \notin lost
        PROVE  Holds(s1, e.d)
    <3>1. e.pos + 1 = e.d.size /\ ctx = Content(e.d)
      BY <1>6, <2>1
    <3>2. QED BY <1>3, <1>24, <1>29, <2>1, <3>1, VerifiedFacts
  <2>2. ASSUME NEW j \in DOMAIN fs, fs[j].st = "complete"
        PROVE  \/ Holds(disk'[DownloadPath(fs[j].d)], fs[j].d)
               \/ DownloadPath(fs[j].d) \in lost
    <3>1. CASE j = i
      BY <1>5, <1>13, <1>30, <2>1, <2>2, <3>1
    <3>2. CASE j # i
      BY <1>13, <1>27, <2>2, <3>2
    <3>3. QED BY <3>1, <3>2
  <2>3. QED BY <1>2, <1>14, <2>2 DEF HasFiles
<1>32. HasPart(trade', disk', lost')
  <2>1. CASE Partial(trade')
    <3>1. fs[next] = f /\ f.pos = e.pos + 1 /\ f.d = e.d
      BY <1>5, <1>6, <1>13, <1>16, <2>1
    <3>2. path \in lost \/ (Len(s1) >= f.pos /\ \A k \in 1..f.pos : s1[k] = ctx[k])
      BY <1>24, <1>29, <3>1
    <3>3. \/ DownloadPath(fs[next].d) \in lost
          \/ /\ Len(disk'[DownloadPath(fs[next].d)]) >= fs[next].pos
             /\ \A k \in 1..fs[next].pos : disk'[DownloadPath(fs[next].d)][k] = ctx[k]
      BY <1>30, <3>1, <3>2
    <3>4. QED BY <1>2, <1>14, <3>3 DEF HasPart
  <2>2. QED BY <2>1 DEF HasPart
<1>33. Whole(trade', disk', lost')
  BY <1>15, <1>17, <1>31, <1>32 DEF Whole
<1>34. Whole(saved', disk', lost')
  <2>1. CASE saved = trade
    <3>1. HasFiles(trade, disk', lost')
      BY <1>2, <1>3, <1>27 DEF HasFiles
    <3>2. HasPart(trade, disk', lost')
      <4>1. ASSUME Partial(trade), path \notin lost
            PROVE  Len(s1) >= e.pos /\ \A k \in 1..e.pos : s1[k] = trade.ctx[k]
        <5>1. c0 = trade.ctx
          BY <1>3, <4>1 DEF Partial, c0, Context
        <5>2. Len(s1) >= e.pos /\ \A k \in 1..e.pos : k \in 1..(e.pos + 1)
          BY <1>3, <1>24
        <5>3. \A k \in 1..e.pos : s1[k] = ctx[k] /\ ctx[k] = c0[k]
          BY <1>10, <1>29, <4>1, <5>2
        <5>4. QED BY <5>1, <5>2, <5>3
      <4>2. QED BY <1>2, <1>3, <1>30, <4>1 DEF HasPart
    <3>3. QED BY <1>2, <1>7, <2>1, <3>1, <3>2 DEF Whole
  <2>2. CASE saved = NoInfo
    BY <1>2, <2>2, NothingIsWhole
  <2>3. CASE Disowned(saved)
    BY <1>1, <1>2, <2>3, Held, DisownedIsWhole DEF Disowned, Gone
  <2>4. QED BY <1>7, <2>1, <2>2, <2>3
<1>35. InstallInv'
  BY <1>21 DEF InstallInv, Installing
<1>36. ParametersLossExplained'
  <2>1. \A q \in Paths : disk'[q] = disk[q] \/ disk'[q] # <<>>
    BY <1>24, <1>25
  <2>2. QED BY <1>2, <1>3, <2>1, InUseFacts, ParametersKept
<1>37. Fits(saved, OnFlash)' /\ todo' \in Seq(Nat) /\ device' \in [Systems -> Nat]
  BY <1>1, <1>2
<1>38. QED BY <1>14, <1>18, <1>20, <1>22, <1>25, <1>33, <1>34, <1>35, <1>36, <1>37, Restored


----------------------------------------------------------------------------
(* The rest of the download *)

\* Places of the download in which its list is in memory and in use.
LEMMA FetchingFacts ==
  ASSUME IInv, pc \in Fetching
  PROVE  /\ trade.kind = "task" /\ trade.files # <<>> /\ Fits(trade, InRam)
         /\ Progress(trade) /\ ContextOf(trade) /\ HasFiles(trade, disk, lost)
         /\ HasPart(trade, disk, lost)
<1>1. trade.kind = "task" /\ trade.files # <<>>
  BY DEF IInv, PhaseInv, DownloadInv
<1>2. QED BY <1>1, Held DEF Whole, Listed

\* A step of the download that leaves the files and the list as they are.
LEMMA StayKeeps ==
  ASSUME IInv, Small', TokenInv', pc # "rename", trade' = trade, disk' = disk,
         device' = device, lost' = lost, dropped' = dropped, todo' \in Seq(Nat),
         Fits(saved, OnFlash)', Whole(saved', disk', lost'), PhaseInv',
         pc' \notin Installing \cup {"wipe", "discard"}, trade.files # <<>>
  PROVE  IInv'
<1>1. MismatchInv' /\ InstallInv'
  BY DEF MismatchInv, InstallInv, Installing
<1>2. ParametersLossExplained'
  BY ParametersKept
<1>3. QED BY <1>1, <1>2, Held, Restored

LEMMA DownloadSteps ==
  ASSUME IInv, NoAnswer \/ EmptyAnswer \/ CommitPiece \/ Reconnect \/ LeaveDownload
  PROVE  \/ Aside
         \/ Same
         \/ /\ UNCHANGED <<trade, disk, device, lost, dropped>>
            /\ \/ pc = "download" /\ pc' = "reconnect" /\ saved' = saved /\ todo' = todo
               \/ pc = "commit" /\ pc' = "reconnect" /\ saved' = trade /\ todo' = todo
               \/ pc = "reconnect" /\ pc' = "download" /\ saved' = saved /\ todo' = todo
               \/ /\ pc = "download" /\ trade.cur > Len(trade.files)
                  /\ pc' = "notify" /\ saved' = saved /\ todo' = <<1>>
<1> USE DEF Aside, Same, flash, marks, Fail, End, Before, Downloading
<1>1. NoAnswer => Aside \/ Same
  BY DEF NoAnswer
<1>2. EmptyAnswer => /\ UNCHANGED <<trade, disk, device, lost, dropped>>
                     /\ pc = "download" /\ pc' = "reconnect" /\ saved' = saved /\ todo' = todo
  BY DEF EmptyAnswer
<1>3. CommitPiece => \/ Aside
                     \/ /\ UNCHANGED <<trade, disk, device, lost, dropped>>
                        /\ pc = "commit" /\ pc' = "reconnect" /\ saved' = trade /\ todo' = todo
  BY DEF CommitPiece
<1>4. Reconnect => \/ Aside
                   \/ /\ UNCHANGED <<trade, disk, device, lost, dropped>>
                      /\ pc = "reconnect" /\ pc' = "download" /\ saved' = saved /\ todo' = todo
  BY DEF Reconnect
<1>5. LeaveDownload => \/ Aside
                       \/ /\ UNCHANGED <<trade, disk, device, lost, dropped>>
                          /\ pc = "download" /\ trade.cur > Len(trade.files)
                          /\ pc' = "notify" /\ saved' = saved /\ todo' = <<1>>
  BY DEF LeaveDownload
<1>6. QED BY <1>1, <1>2, <1>3, <1>4, <1>5

LEMMA DownloadKeeps ==
  ASSUME IInv, Small', TokenInv',
         NoAnswer \/ EmptyAnswer \/ CommitPiece \/ Reconnect \/ LeaveDownload
  PROVE  IInv'
<1>0. CASE Aside \/ Same
  BY <1>0, AsideKeeps, SameKeeps
<1>1. CASE /\ UNCHANGED <<trade, disk, device, lost, dropped>>
           /\ \/ pc = "download" /\ pc' = "reconnect" /\ saved' = saved /\ todo' = todo
              \/ pc = "commit" /\ pc' = "reconnect" /\ saved' = trade /\ todo' = todo
              \/ pc = "reconnect" /\ pc' = "download" /\ saved' = saved /\ todo' = todo
  <2>1. trade.kind = "task" /\ trade.files # <<>> /\ Fits(trade, InRam)
    BY <1>1, FetchingFacts DEF Fetching
  <2>2. Fits(saved, OnFlash)' /\ Whole(saved', disk', lost') /\ InOrder(saved')
    <3>1. CASE saved' = saved
      BY <1>1, <3>1, Held, SavedNow
    <3>2. CASE saved' = trade
      BY <1>1, <2>1, <3>2, Held, RamFitsFlash DEF InOrder
    <3>3. QED BY <1>1, <3>1, <3>2
  <2>3. /\ pc' \in {"download", "reconnect"}
        /\ saved' = trade' \/ (Fresh(trade') /\ (saved' = NoInfo \/ Disowned(saved)'))
    <3>1. CASE saved' = trade
      BY <1>1, <3>1
    <3>2. CASE saved' = saved /\ pc \in {"download", "reconnect"}
      BY <1>1, <3>2 DEF IInv, PhaseInv, Disowned, Gone
    <3>3. QED BY <1>1, <3>1, <3>2
  <2>4. PhaseInv'
    <3>1. NoInfo.kind = "none"
      BY DEF NoInfo, NoTrade
    <3>2. QED BY <1>1, <2>1, <2>2, <2>3, <3>1 DEF PhaseInv, InOrder, Fetching, Installing
  <2>5. pc' \notin Installing \cup {"wipe", "discard"}
    BY <2>3 DEF Installing
  <2>6. todo' \in Seq(Nat) /\ pc # "rename"
    BY <1>1, Held
  <2>7. QED BY <1>1, <2>1, <2>2, <2>4, <2>5, <2>6, StayKeeps
<1>2. CASE /\ UNCHANGED <<trade, disk, device, lost, dropped>>
           /\ pc = "download" /\ trade.cur > Len(trade.files)
           /\ pc' = "notify" /\ saved' = saved /\ todo' = <<1>>
  <2>1. trade.kind = "task" /\ trade.files # <<>> /\ Fits(trade, InRam)
    BY <1>2, FetchingFacts DEF Fetching
  <2>2. trade.files \in Seq(Files) /\ Len(trade.files) \in Nat /\ DOMAIN trade.files = 1..Len(trade.files)
    BY <2>1, TradeFacts
  <2>3. Len(trade.files) # 0
    BY <2>1, <2>2, EmptySeq
  <2>4. saved = trade
    <3>1. ~Fresh(trade)
      BY <1>2, <2>2, <2>3 DEF Fresh
    <3>2. QED BY <1>2, <3>1 DEF IInv, PhaseInv
  <2>5. todo' \in Seq(Nat) /\ todo' # <<>> /\ todo'[1] \in DOMAIN trade'.files
    BY <1>2, <2>2, <2>3
  <2>6. PhaseInv'
    BY <1>2, <2>1, <2>4, <2>5 DEF PhaseInv, Fetching, Installing
  <2>7. pc' \notin Installing \cup {"wipe", "discard"}
    BY <1>2 DEF Installing
  <2>8. Fits(saved, OnFlash)' /\ Whole(saved', disk', lost')
    BY <1>2, Held
  <2>9. QED BY <1>2, <2>1, <2>5, <2>6, <2>7, <2>8, StayKeeps
<1>3. QED BY <1>0, <1>1, <1>2, DownloadSteps

\* No download's path is that of parameters in use.
LEMMA DownloadAside ==
  ASSUME NEW d \in Desc, d.kind = "PF", NEW c \in Desc
  PROVE  InUse(d) # DownloadPath(c)
<1>1. /\ InUse(d)[1] = d.name /\ DownloadPath(c)[1] = c.name
      /\ InUse(d)[2] \in {"", "/ext/"} /\ DownloadPath(c)[2] # "/ext/"
      /\ c.kind = "PF" => DownloadPath(c)[2] = ".bak"
  BY InUseFacts, PathFacts
<1>2. d.name = c.name => c.kind = "PF"
  BY FilesAssumption
<1>3. QED BY <1>1, <1>2

LEMMA DiscardKeeps ==
  ASSUME IInv, Small', TokenInv', Discard
  PROVE  IInv'
<1> DEFINE p == DownloadPath(Current.d)
<1>1. /\ pc = "discard" /\ pc' = "uncommit" /\ DeleteFile(p) /\ todo' = todo
      /\ saved' = saved /\ trade' = trade /\ device' = device /\ dropped' = dropped
  BY DEF Discard
<1>2. trade.cur <= Len(trade.files) /\ Current.pos = 0 /\ trade.kind = "task" /\ trade.files # <<>>
  BY <1>1 DEF IInv, PhaseInv, DownloadInv, Fetching
<1>3. Current.d \in Desc
  BY <1>2, Held, TradeFacts DEF Current
<1>4. p \in Paths
  BY <1>3, PathFacts
<1>5. /\ disk' \in [Paths -> Seq(Pieces)]
      /\ \A q \in Paths : q # p => disk'[q] = disk[q]
      /\ Whole(trade, disk', lost') /\ Whole(saved, disk', lost')
  BY <1>1, <1>4, DeletedFacts
<1>6. PhaseInv'
  BY <1>1, <1>2 DEF IInv, PhaseInv, Fetching, Installing, Current
<1>7. MismatchInv' /\ InstallInv'
  BY <1>1 DEF MismatchInv, InstallInv, Installing
<1>8. ParametersLossExplained'
  <2>1. \A d \in Desc : d.kind = "PF" => disk'[InUse(d)] = disk[InUse(d)]
    BY <1>3, <1>5, InUseFacts, DownloadAside
  <2>2. QED BY <1>1, <2>1, ParametersKept
<1>9. Fits(saved, OnFlash)' /\ Fits(trade, InRam)' /\ todo' \in Seq(Nat) /\ device' \in [Systems -> Nat]
  BY <1>1, Held
<1>10. QED BY <1>1, <1>2, <1>5, <1>6, <1>7, <1>8, <1>9, Restored

\* A status file that no longer counts the file at its path.
LEMMA ForgottenIsWhole ==
  ASSUME NEW s, Fits(s, InRam), Whole(s, disk, lost), Listed(s), s.cur <= Len(s.files),
         s.files[s.cur].pos = 0
  PROVE  Whole(s, disk, lost \ {DownloadPath(s.files[s.cur].d)})
<1> DEFINE i == s.cur
           p == DownloadPath(s.files[i].d)
<1>1. /\ i \in Nat \ {0} /\ Len(s.files) \in Nat /\ DOMAIN s.files = 1..Len(s.files)
      /\ \A j \in DOMAIN s.files : s.files[j].d \in Desc
  BY TradeFacts
<1>2. i \in DOMAIN s.files
  BY <1>1
<1>3. Progress(s) /\ ContextOf(s) /\ HasFiles(s, disk, lost)
  BY DEF Whole
<1>4. ~Partial(s)
  BY <1>1 DEF Partial
<1>5. ASSUME NEW j \in DOMAIN s.files, s.files[j].st = "complete"
      PROVE  DownloadPath(s.files[j].d) # p
  <2>1. j # i
    BY <1>1, <1>2, <1>3, <1>5 DEF Progress
  <2>2. s.files[j].d.name # s.files[i].d.name
    BY <1>2, <1>3, <2>1 DEF Progress
  <2>3. QED BY <1>1, <1>2, <2>2, PathFacts
<1>6. HasFiles(s, disk, lost \ {p})
  BY <1>3, <1>5 DEF HasFiles
<1>7. QED BY <1>3, <1>4, <1>6 DEF Whole, HasPart

LEMMA UncommitKeeps ==
  ASSUME IInv, Small', TokenInv', Uncommit
  PROVE  IInv'
<1>1. /\ pc = "uncommit" /\ disk' = disk /\ device' = device /\ dropped' = dropped
      /\ pc' \in Before /\ trade' = NoTrade /\ todo' = todo
      /\ \/ saved' = trade /\ lost' = lost \ {DownloadPath(Current.d)}
         \/ saved' = saved /\ lost' = lost
  BY DEF Uncommit, Fail, End, Before
<1>2. /\ trade.kind = "task" /\ trade.files # <<>> /\ Fits(trade, InRam)
      /\ trade.cur <= Len(trade.files) /\ Current.pos = 0
  BY <1>1, FetchingFacts DEF IInv, PhaseInv, Fetching
<1>3. Whole(saved', disk', lost') /\ Fits(saved, OnFlash)' /\ InOrder(saved')
  <2>1. CASE saved' = saved /\ lost' = lost
    BY <1>1, <2>1, Held, SavedNow
  <2>2. CASE saved' = trade /\ lost' = lost \ {DownloadPath(Current.d)}
    BY <1>1, <1>2, <2>2, Held, ForgottenIsWhole, RamFitsFlash DEF Listed, Current, InOrder
  <2>3. QED BY <1>1, <2>1, <2>2
<1>4. Fits(trade, InRam)' /\ Whole(trade', disk', lost')
  BY <1>1, NothingFits, NothingIsWhole
<1>5. QED BY <1>1, <1>3, <1>4, Held, BeforeKeeps

LEMMA NotifyKeeps ==
  ASSUME IInv, Small', TokenInv', Notify
  PROVE  IInv'
<1> DEFINE i == todo[1]
<1>1. /\ pc = "notify" /\ saved' = saved /\ disk' = disk /\ device' = device
      /\ lost' = lost /\ dropped' = dropped
      /\ \/ /\ pc' = (IF i = Len(trade.files) THEN "told" ELSE pc)
            /\ todo' = (IF i = Len(trade.files) THEN <<>> ELSE <<i + 1>>)
            /\ trade' = trade
         \/ Fail
  BY DEF Notify, flash, marks
<1>2. CASE Fail
  <2>1. Aside
    BY <1>1, <1>2 DEF Aside, Fail, End, Before
  <2>2. QED BY <2>1, AsideKeeps
<1>3. CASE /\ pc' = (IF i = Len(trade.files) THEN "told" ELSE pc)
           /\ todo' = (IF i = Len(trade.files) THEN <<>> ELSE <<i + 1>>)
           /\ trade' = trade
  <2>1. trade.kind = "task" /\ trade.files # <<>> /\ Fits(trade, InRam)
    BY <1>1, FetchingFacts DEF Fetching
  <2>2. Len(trade.files) \in Nat /\ DOMAIN trade.files = 1..Len(trade.files)
    BY <2>1, TradeFacts
  <2>3. i \in 1..Len(trade.files) /\ saved = trade /\ trade.cur > Len(trade.files)
    BY <1>1, <2>2 DEF IInv, PhaseInv
  <2>4. todo' \in Seq(Nat) /\ (pc' = "notify" => todo' # <<>> /\ todo'[1] \in DOMAIN trade'.files)
    <3>1. CASE i = Len(trade.files)
      BY <1>3, <3>1, EmptySeq
    <3>2. CASE i # Len(trade.files)
      <4>1. i + 1 \in Nat /\ i + 1 \in 1..Len(trade.files) /\ todo' = <<i + 1>>
        BY <1>3, <2>2, <2>3, <3>2
      <4>2. QED BY <1>3, <2>2, <4>1
    <3>3. QED BY <3>1, <3>2
  <2>5. pc' \in {"notify", "told"}
    BY <1>1, <1>3
  <2>6. PhaseInv'
    BY <1>1, <1>3, <2>1, <2>3, <2>4, <2>5 DEF PhaseInv, Fetching, Installing
  <2>7. pc' \notin Installing \cup {"wipe", "discard"}
    BY <2>5 DEF Installing
  <2>8. Fits(saved, OnFlash)' /\ Whole(saved', disk', lost')
    BY <1>1, Held
  <2>9. QED BY <1>1, <1>3, <2>1, <2>4, <2>6, <2>7, <2>8, StayKeeps
<1>4. QED BY <1>1, <1>2, <1>3

----------------------------------------------------------------------------
(* The installation *)

Working == Installing \ {"update"}

\* What holds before every step of it.
LEMMA InstallFacts ==
  ASSUME IInv, pc \in Working
  PROVE  /\ Fits(trade, InRam) /\ trade.cur > Len(trade.files)
         /\ pc \notin {"scrap", "finish"} =>
              /\ todo # <<>> /\ \A k \in DOMAIN todo : todo[k] \in DOMAIN trade.files
              /\ todo[1] \in DOMAIN trade.files /\ Next1 = trade.files[todo[1]]
              /\ Next1 \in Files /\ Next1.d \in Desc /\ Next1.d.ver \in Nat
              /\ Next1.d.kind \in Kinds /\ Next1.d.zip \in BOOLEAN
<1>1. Fits(trade, InRam) /\ todo \in Seq(Nat)
  BY Held
<1>2. trade.cur > Len(trade.files)
  BY DEF IInv, PhaseInv, Working
<1>3. ASSUME pc \notin {"scrap", "finish"}
      PROVE  /\ todo # <<>> /\ \A k \in DOMAIN todo : todo[k] \in DOMAIN trade.files
             /\ todo[1] \in DOMAIN trade.files /\ Next1 = trade.files[todo[1]]
             /\ Next1 \in Files /\ Next1.d \in Desc /\ Next1.d.ver \in Nat
             /\ Next1.d.kind \in Kinds /\ Next1.d.zip \in BOOLEAN
  <2>1. todo # <<>> /\ \A k \in DOMAIN todo : todo[k] \in DOMAIN trade.files
    BY <1>3 DEF IInv, InstallInv, Working
  <2>2. todo[1] \in DOMAIN trade.files
    BY <1>1, <2>1, TailFacts
  <2>3. Next1 \in Files /\ Next1.d \in Desc
    BY <1>1, <2>2, TradeFacts DEF Next1
  <2>4. QED BY <2>1, <2>2, <2>3, DescFacts DEF Next1
<1>4. QED BY <1>1, <1>2, <1>3

\* What is left to show of a step that ends in one.
LEMMA InstallRestored ==
  ASSUME IInv, Small', TokenInv', pc' \in Working, disk' \in [Paths -> Seq(Pieces)],
         Fits(trade, InRam)', trade'.cur > Len(trade'.files), todo' \in Seq(Nat),
         device' \in [Systems -> Nat], Fits(saved, OnFlash)', InOrder(saved'),
         Whole(trade', disk', lost'), Whole(saved', disk', lost'),
         InstallInv', ParametersLossExplained'
  PROVE  IInv'
<1>1. pc' \notin Fetching \cup {"wipe", "update"}
  BY DEF Working, Installing, Fetching
<1>2. PhaseInv'
  <2>1. NoInfo.kind = "none"
    BY DEF NoInfo, NoTrade
  <2>2. /\ saved' # NoInfo => saved'.kind # "none" /\ saved'.files # <<>>
        /\ saved'.kind = "update" => saved'.cur > Len(saved'.files)
    BY <2>1 DEF InOrder
  <2>3. QED BY <1>1, <2>2 DEF PhaseInv, Fetching
<1>3. MismatchInv'
  BY <1>1 DEF MismatchInv, Fetching
<1>4. QED BY <1>1, <1>2, <1>3, Restored

\* A step that leaves the list and the status file alone.
LEMMA WorkKeeps ==
  ASSUME IInv, Small', TokenInv', pc \in Working, pc' \in Working, trade' = trade, saved' = saved,
         disk' \in [Paths -> Seq(Pieces)], todo' \in Seq(Nat), device' \in [Systems -> Nat],
         Whole(trade, disk', lost'), Whole(saved, disk', lost'),
         InstallInv', ParametersLossExplained'
  PROVE  IInv'
<1>1. Fits(trade, InRam)' /\ trade'.cur > Len(trade'.files)
  BY InstallFacts
<1>2. Fits(saved, OnFlash)' /\ InOrder(saved')
  BY Held, SavedNow
<1>3. QED BY <1>1, <1>2, InstallRestored

\* A file is done with, whether it was installed or not.
LEMMA ProceedFacts ==
  ASSUME IInv, pc \in Working \ {"scrap", "finish"}, Proceed,
         DOMAIN trade'.files = DOMAIN trade.files
  PROVE  todo' \in Seq(Nat) /\ pc' \in Working /\ InstallInv'
<1>1. /\ todo \in Seq(Nat) /\ todo # <<>> /\ \A k \in DOMAIN todo : todo[k] \in DOMAIN trade.files
  BY Held, InstallFacts
<1>2. todo' = Tail(todo) /\ pc' = (IF Len(todo) = 1 THEN "finish" ELSE "install")
  BY DEF Proceed
<1>3. /\ todo' \in Seq(Nat) /\ \A k \in DOMAIN todo' : todo'[k] \in DOMAIN trade'.files
      /\ pc' = "install" => todo' # <<>>
  BY <1>1, <1>2, TailFacts
<1>4. pc' \in {"finish", "install"}
  BY <1>2
<1>5. InstallInv'
  BY <1>3, <1>4 DEF InstallInv, Installing
<1>6. QED BY <1>3, <1>4, <1>5 DEF Working, Installing

\* An installation failed; the parameters being replaced stay deleted.
GivenUp ==
    /\ \E first \in {<<>>, <<todo[1]>>} : GiveUp(first)
    /\ lost' = lost /\ dropped \subseteq dropped'
    /\ pc = "rename" => Next1.d.name \in dropped'

LEMMA GivenUpKeeps ==
  ASSUME IInv, Small', TokenInv', pc \in Working \ {"scrap", "finish"}, GivenUp
  PROVE  IInv'
<1>1. PICK first \in {<<>>, <<todo[1]>>} : GiveUp(first)
  BY DEF GivenUp
<1>2. /\ pc' = "scrap" /\ todo' = first \o Doomed(trade) /\ trade' = trade /\ saved' = saved
      /\ disk' = disk /\ device' = device /\ lost' = lost /\ dropped \subseteq dropped'
      /\ pc = "rename" => Next1.d.name \in dropped'
  BY <1>1 DEF GiveUp, flash, GivenUp
<1>3. /\ Fits(trade, InRam) /\ todo[1] \in DOMAIN trade.files /\ DOMAIN trade.files = 1..Len(trade.files)
      /\ Len(trade.files) \in Nat
  BY InstallFacts, TradeFacts
<1>4. /\ Doomed(trade) \in Seq(Nat)
      /\ \A k \in DOMAIN Doomed(trade) : Doomed(trade)[k] \in DOMAIN trade.files
  BY <1>3, RamFitsFlash, DoomedFacts
<1>5. first \in Seq(Nat) /\ \A k \in DOMAIN first : first[k] \in DOMAIN trade.files
  <2>1. CASE first = <<>>
    <3>1. first \in Seq(Nat) /\ Len(first) = 0
      BY <2>1, EmptySeq
    <3>2. DOMAIN first = 1..0
      BY <3>1, LenProperties
    <3>3. QED BY <3>1, <3>2
  <2>2. CASE first = <<todo[1]>>
    <3>1. todo[1] \in Nat
      BY <1>3
    <3>2. first \in Seq(Nat) /\ DOMAIN first = 1..1 /\ first[1] = todo[1]
      BY <2>2, <3>1
    <3>3. QED BY <1>3, <3>2
  <2>3. QED BY <2>1, <2>2
<1>6. todo' \in Seq(Nat) /\ \A k \in DOMAIN todo' : todo'[k] \in DOMAIN trade.files
  <2> DEFINE rest == Doomed(trade)
  <2>1. /\ first \o rest \in Seq(Nat)
        /\ Len(first \o rest) = Len(first) + Len(rest)
        /\ \A k \in 1..(Len(first) + Len(rest)) :
             (first \o rest)[k] = IF k <= Len(first) THEN first[k] ELSE rest[k - Len(first)]
    BY <1>4, <1>5, ConcatProperties
  <2>2. /\ Len(first) \in Nat /\ Len(rest) \in Nat /\ DOMAIN first = 1..Len(first)
        /\ DOMAIN rest = 1..Len(rest) /\ DOMAIN (first \o rest) = 1..Len(first \o rest)
    BY <1>4, <1>5, <2>1, LenProperties
  <2> HIDE DEF rest
  <2>3. ASSUME NEW k \in DOMAIN (first \o rest)
        PROVE  (first \o rest)[k] \in DOMAIN trade.files
    <3>1. CASE k <= Len(first)
      BY <1>5, <2>1, <2>2, <3>1
    <3>2. CASE ~(k <= Len(first))
      <4>1. k - Len(first) \in DOMAIN rest
        BY <2>1, <2>2, <3>2
      <4>2. QED BY <1>4, <2>1, <2>2, <3>2, <4>1 DEF rest
    <3>3. QED BY <3>1, <3>2
  <2>4. QED BY <1>2, <2>1, <2>3 DEF rest
<1>7. InstallInv'
  BY <1>2, <1>6 DEF InstallInv, Installing, Doom
<1>8. ParametersLossExplained'
  BY <1>2 DEF IInv, ParametersLossExplained
<1>9. pc' \in Working
  BY <1>2 DEF Working, Installing
<1>10. QED BY <1>2, <1>6, <1>7, <1>8, <1>9, Held, WorkKeeps

LEMMA ToldKeeps ==
  ASSUME IInv, Small', TokenInv', Told
  PROVE  IInv'
<1> DEFINE t == [trade EXCEPT !.kind = "update"]
<1>1. /\ pc = "told" /\ pc' = "update" /\ saved' \in {saved, t} /\ disk' = disk /\ device' = device
      /\ trade' = trade /\ todo' = todo /\ lost' = lost /\ dropped' = dropped
  BY DEF Told, WriteStatus, marks
<1>2. /\ trade.kind = "task" /\ trade.files # <<>> /\ Fits(trade, InRam) /\ saved = trade
      /\ trade.cur > Len(trade.files)
  BY <1>1, FetchingFacts DEF Fetching, IInv, PhaseInv
<1>3. /\ trade.files \in Seq(Files) /\ trade.cur \in Nat \ {0} /\ trade.ctx \in Seq(Pieces)
      /\ trade.cur <= Len(trade.files) + 1
      /\ \A i \in DOMAIN trade.files : trade.files[i].pos <= trade.files[i].d.size
      /\ trade = [kind |-> trade.kind, files |-> trade.files, cur |-> trade.cur, ctx |-> trade.ctx]
  BY <1>2, TradeFacts
<1>4. t = [kind |-> "update", files |-> trade.files, cur |-> trade.cur, ctx |-> trade.ctx]
  BY <1>3
<1>5. Fits(t, OnFlash)
  <2>1. "update" \in OnFlash
    BY DEF OnFlash
  <2>2. Fits([kind |-> "update", files |-> trade.files, cur |-> trade.cur, ctx |-> trade.ctx], OnFlash)
    BY <1>3, <2>1, FitsAgain
  <2>3. QED BY <1>4, <2>2
<1>6. t.kind = "update" /\ t.files = trade.files /\ t.cur = trade.cur
  BY <1>4
<1> HIDE DEF t
<1>7. Whole(t, disk, lost)
  BY <1>6 DEF Whole, Listed
<1>8. /\ Fits(saved, OnFlash)' /\ Whole(saved', disk', lost') /\ saved' # NoInfo
      /\ saved'.kind # "none" /\ saved'.files # <<>> /\ saved'.cur > Len(saved'.files)
  <2>1. NoInfo.files = <<>>
    BY DEF NoInfo, NoTrade
  <2>2. CASE saved' = saved
    BY <1>1, <1>2, <2>1, <2>2, Held
  <2>3. CASE saved' = t
    BY <1>1, <1>2, <1>5, <1>6, <1>7, <2>1, <2>3
  <2>4. QED BY <1>1, <2>2, <2>3
<1>9. PhaseInv'
  BY <1>1, <1>8 DEF PhaseInv, Fetching
<1>10. MismatchInv' /\ InstallInv'
  BY <1>1 DEF MismatchInv, InstallInv
<1>11. ParametersLossExplained'
  BY <1>1, ParametersKept
<1>12. pc' \notin Fetching
  BY <1>1 DEF Fetching
<1>13. QED BY <1>1, <1>8, <1>9, <1>10, <1>11, <1>12, Held, Restored

LEMMA BeginKeeps ==
  ASSUME IInv, Small', TokenInv', BeginUpdate
  PROVE  IInv'
<1> DEFINE fs == saved.files
           I == {i \in DOMAIN fs : fs[i].st = "complete"}
           rank == [i \in DOMAIN fs |-> Rank[fs[i].d.kind]]
<1>1. /\ pc = "update" /\ trade' = saved /\ todo' \in InstallOrder(fs)
      /\ pc' = IF todo' = <<>> THEN "finish" ELSE "install"
      /\ disk' = disk /\ saved' = saved /\ device' = device /\ lost' = lost /\ dropped' = dropped
  BY DEF BeginUpdate, flash, marks
<1>2. saved # NoInfo /\ saved.cur > Len(saved.files)
  BY <1>1 DEF IInv, PhaseInv
<1>3. Fits(saved, InRam) /\ InOrder(saved)
  BY <1>2, SavedNow
<1>4. /\ Len(fs) \in Nat /\ DOMAIN fs = 1..Len(fs) /\ \A i \in DOMAIN fs : fs[i].d \in Desc
  BY <1>3, TradeFacts
<1>5. I \in SUBSET Nat /\ IsFiniteSet(I)
  <2>1. IsFiniteSet(1..Len(fs)) /\ I \subseteq 1..Len(fs)
    BY <1>4, FS_Interval
  <2>2. IsFiniteSet(I)
    BY <2>1, FS_Subset
  <2>3. QED BY <1>4, <2>2
<1>6. \A i \in I : rank[i] \in Nat
  <2>1. \A k \in Kinds : Rank[k] \in Nat
    BY DEF Rank, Kinds
  <2>2. \A i \in DOMAIN fs : fs[i].d.kind \in Kinds
    BY <1>4, DescFacts
  <2>3. QED BY <2>1, <2>2
<1>7. todo' \in Ordered(I, rank)
  BY <1>1 DEF InstallOrder
<1> HIDE DEF rank
<1>8. /\ todo' \in Seq(I) /\ DOMAIN todo' = 1..Len(todo') /\ \A a \in DOMAIN todo' : todo'[a] \in I
  BY <1>5, <1>6, <1>7, OrderedFacts
<1>9. todo' \in Seq(Nat) /\ \A a \in DOMAIN todo' : todo'[a] \in DOMAIN trade'.files
  BY <1>1, <1>4, <1>8
<1>10. InstallInv'
  BY <1>1, <1>9 DEF InstallInv, Installing
<1>11. ParametersLossExplained'
  BY <1>1, ParametersKept
<1>12. pc' \in Working
  BY <1>1 DEF Working, Installing
<1>13. QED BY <1>1, <1>2, <1>3, <1>9, <1>10, <1>11, <1>12, Held, InstallRestored

\* Parameters are deleted, then replaced by the download.
LEMMA DeleteOldKeeps ==
  ASSUME IInv, Small', TokenInv', DeleteOld
  PROVE  IInv'
<1> DEFINE old == <<Next1.d.name, "">>
<1>1. /\ pc = "install" /\ pc' = "rename" /\ Next1.d.kind = "PF" /\ DeleteFile(old) /\ pc \in Working
      /\ saved' = saved /\ device' = device /\ trade' = trade /\ todo' = todo /\ dropped' = dropped
  BY DEF DeleteOld, Working, Installing
<1>2. /\ todo # <<>> /\ \A k \in DOMAIN todo : todo[k] \in DOMAIN trade.files
      /\ Next1.d \in Desc
  BY <1>1, InstallFacts
<1>3. Next1' = Next1
  BY <1>1 DEF Next1
<1>4. old \in Paths
  BY <1>2, PathFacts
<1>5. /\ disk' \in [Paths -> Seq(Pieces)] /\ \A q \in Paths : q # old => disk'[q] = disk[q]
      /\ Whole(trade, disk', lost') /\ Whole(saved, disk', lost')
  BY <1>1, <1>4, DeletedFacts
<1>6. InstallInv'
  BY <1>1, <1>2, <1>3 DEF InstallInv
<1>7. ParametersLossExplained'
  <2>1. ASSUME NEW d \in Desc, d.kind = "PF"
        PROVE  disk'[InUse(d)] = disk[InUse(d)] \/ (~d.zip /\ Next1.d.name = d.name)
    <3>1. CASE InUse(d) # old
      BY <1>5, <3>1, InUseFacts
    <3>2. CASE InUse(d) = old
      <4>1. d.name = Next1.d.name /\ "" = IF d.zip THEN "/ext/" ELSE ""
        BY <3>2 DEF InUse
      <4>2. QED BY <4>1
    <3>3. QED BY <3>1, <3>2
  <2>2. QED BY <1>1, <1>3, <2>1 DEF IInv, ParametersLossExplained, InUse
<1>8. pc' \in Working
  BY <1>1 DEF Working, Installing
<1>9. QED BY <1>1, <1>5, <1>6, <1>7, <1>8, Held, WorkKeeps

LEMMA RenameKeeps ==
  ASSUME IInv, Small', TokenInv', RenameNew
  PROVE  IInv'
<1> DEFINE n == Next1
           old == <<n.d.name, "">>
           new == <<n.d.name, ".bak">>
<1>1. pc = "rename" /\ pc \in Working
  BY DEF RenameNew, Working, Installing
<1>2. CASE GiveUp(<<>>) /\ lost' = lost /\ dropped' = dropped \cup {n.d.name}
  <2>1. GivenUp
    BY <1>2 DEF GivenUp
  <2>2. QED BY <1>1, <2>1, GivenUpKeeps
<1>3. ASSUME disk[new] # <<>>,
             disk' = [disk EXCEPT ![old] = disk[new], ![new] = <<>>],
             lost' = lost \cup {new}, dropped' = dropped \ {n.d.name},
             pc' = (IF n.d.zip THEN "unzip" ELSE "mark"),
             UNCHANGED <<saved, device, trade, todo>>
      PROVE  IInv'
  <2>1. /\ disk \in [Paths -> Seq(Pieces)] /\ n.d \in Desc
        /\ todo # <<>> /\ \A k \in DOMAIN todo : todo[k] \in DOMAIN trade.files
    BY <1>1, InstallFacts, Held
  <2>2. Next1' = n
    BY <1>3 DEF Next1
  <2>3. old \in Paths /\ new \in Paths /\ old # new
    BY <2>1, PathFacts
  <2>4. n.d.kind = "PF"
    BY <1>1 DEF IInv, InstallInv, Installing
  <2>5. /\ disk' \in [Paths -> Seq(Pieces)] /\ disk'[old] # <<>>
        /\ \A p \in Paths : p # old /\ p # new => disk'[p] = disk[p]
    BY <1>3, <2>1, <2>3, PieceFacts
  <2>6. Whole(trade, disk', lost') /\ Whole(saved, disk', lost')
    <3>1. ASSUME NEW d \in Desc
          PROVE  disk'[DownloadPath(d)] = disk[DownloadPath(d)] \/ DownloadPath(d) \in lost'
      <4>1. CASE DownloadPath(d) = old
        <5>1. d.name = n.d.name /\ "" = IF d.kind = "PF" THEN ".bak" ELSE ""
          BY <4>1 DEF DownloadPath
        <5>2. d.kind = "PF"
          BY <2>1, <2>4, <5>1, FilesAssumption
        <5>3. QED BY <5>1, <5>2
      <4>2. CASE DownloadPath(d) = new
        BY <1>3, <4>2
      <4>3. CASE DownloadPath(d) # old /\ DownloadPath(d) # new
        BY <2>5, <4>3, PathFacts
      <4>4. QED BY <4>1, <4>2, <4>3
    <3>2. QED BY <1>3, <3>1, Held, WholeKept
  <2>7. InstallInv'
    BY <1>3, <2>1, <2>2, <2>4, <2>5 DEF InstallInv
  <2>8. ParametersLossExplained'
    <3>1. ASSUME NEW d \in Desc, d.kind = "PF"
          PROVE  disk'[InUse(d)] # <<>> \/ (~d.zip /\ d.name \in dropped')
      <4>1. InUse(d) # new
        <5>1. InUse(d)[2] # ".bak"
          BY DEF InUse
        <5>2. QED BY <5>1
      <4>2. CASE InUse(d) = old
        BY <2>5, <4>2
      <4>3. CASE InUse(d) # old
        <5>1. disk'[InUse(d)] = disk[InUse(d)]
          BY <2>5, <4>1, <4>3, InUseFacts
        <5>2. ~d.zip => n.d.name # d.name
          BY <4>3 DEF InUse
        <5>3. QED BY <1>3, <3>1, <5>1, <5>2 DEF IInv, ParametersLossExplained, InUse
      <4>4. QED BY <4>2, <4>3
    <3>2. QED BY <1>3, <3>1 DEF ParametersLossExplained, InUse
  <2>9. pc' \in Working
    BY <1>3 DEF Working, Installing
  <2>10. QED BY <1>1, <1>3, <2>5, <2>6, <2>7, <2>8, <2>9, Held, WorkKeeps
<1>4. QED BY <1>2, <1>3 DEF RenameNew

\* What is unzipped is nobody's download.
LEMMA UnzippedFacts ==
  ASSUME IInv, NEW e \in Desc, NEW x \in {".bin", "/ext/"}, NEW new \in Seq(Pieces),
         disk' = [disk EXCEPT ![<<e.name, x>>] = new], lost' = lost
  PROVE  /\ disk' \in [Paths -> Seq(Pieces)] /\ disk'[<<e.name, x>>] = new
         /\ \A q \in Paths : q # <<e.name, x>> => disk'[q] = disk[q]
         /\ Whole(trade, disk', lost') /\ Whole(saved, disk', lost')
<1>1. disk \in [Paths -> Seq(Pieces)] /\ <<e.name, x>> \in Paths
  BY Held, PathFacts
<1>2. /\ disk' \in [Paths -> Seq(Pieces)] /\ disk'[<<e.name, x>>] = new
      /\ \A q \in Paths : q # <<e.name, x>> => disk'[q] = disk[q]
  BY <1>1
<1>3. ASSUME NEW d \in Desc
      PROVE  disk'[DownloadPath(d)] = disk[DownloadPath(d)]
  <2>1. DownloadPath(d) # <<e.name, x>>
    BY DEF DownloadPath
  <2>2. QED BY <1>2, <2>1, PathFacts
<1>4. QED BY <1>2, <1>3, Held, WholeKept

LEMMA UnzipParametersKeeps ==
  ASSUME IInv, Small', TokenInv', UnzipParameters
  PROVE  IInv'
<1> DEFINE n == Next1
           zip == <<n.d.name, "">>
           ext == <<n.d.name, "/ext/">>
<1>1. pc = "unzip" /\ pc \in Working /\ lost' = lost /\ dropped' = dropped
  BY DEF UnzipParameters, Working, Installing, marks
<1>2. CASE GiveUp(<<todo[1]>>)
  <2>1. GivenUp
    BY <1>1, <1>2 DEF GivenUp
  <2>2. QED BY <1>1, <2>1, GivenUpKeeps
<1>3. ASSUME disk' = [disk EXCEPT ![ext] = disk[zip]], pc' = "clear",
             UNCHANGED <<saved, device, trade, todo>>
      PROVE  IInv'
  <2>1. /\ disk \in [Paths -> Seq(Pieces)] /\ n.d \in Desc
        /\ todo # <<>> /\ \A k \in DOMAIN todo : todo[k] \in DOMAIN trade.files
    BY <1>1, InstallFacts, Held
  <2>2. Next1' = n
    BY <1>3 DEF Next1
  <2>3. n.d.kind = "PF" /\ n.d.zip /\ disk[zip] # <<>>
    BY <1>1 DEF IInv, InstallInv, Installing
  <2>4. disk[zip] \in Seq(Pieces)
    BY <2>1, PathFacts
  <2>5. /\ disk' \in [Paths -> Seq(Pieces)] /\ disk'[ext] # <<>>
        /\ \A q \in Paths : q # ext => disk'[q] = disk[q]
        /\ Whole(trade, disk', lost') /\ Whole(saved, disk', lost')
    BY <1>1, <1>3, <2>1, <2>3, <2>4, UnzippedFacts
  <2>6. InstallInv'
    BY <1>3, <2>1, <2>2, <2>3 DEF InstallInv
  <2>7. ParametersLossExplained'
    BY <1>1, <2>5, InUseFacts, ParametersKept
  <2>8. pc' \in Working
    BY <1>3 DEF Working, Installing
  <2>9. QED BY <1>1, <1>3, <2>5, <2>6, <2>7, <2>8, Held, WorkKeeps
<1>4. QED BY <1>2, <1>3 DEF UnzipParameters

LEMMA UnzipKeeps ==
  ASSUME IInv, Small', TokenInv', Unzip
  PROVE  IInv'
<1> DEFINE bin == <<Next1.d.name, ".bin">>
<1>1. /\ pc = "install" /\ pc \in Working /\ lost' = lost /\ dropped' = dropped
      /\ Next1.d.kind # "PF"
  BY DEF Unzip, Working, Installing, marks
<1>2. CASE GiveUp(<<todo[1]>>)
  <2>1. GivenUp
    BY <1>1, <1>2 DEF GivenUp
  <2>2. QED BY <1>1, <2>1, GivenUpKeeps
<1>3. ASSUME disk' = [disk EXCEPT ![bin] = disk[ImagePath(Next1)]], pc' = "clear",
             UNCHANGED <<saved, device, trade, todo>>
      PROVE  IInv'
  <2>1. /\ disk \in [Paths -> Seq(Pieces)] /\ Next1.d \in Desc
        /\ todo # <<>> /\ \A k \in DOMAIN todo : todo[k] \in DOMAIN trade.files
    BY <1>1, InstallFacts, Held
  <2>2. Next1' = Next1
    BY <1>3 DEF Next1
  <2>3. disk[ImagePath(Next1)] \in Seq(Pieces)
    BY <2>1, PathFacts
  <2>4. /\ disk' \in [Paths -> Seq(Pieces)]
        /\ \A q \in Paths : q # bin => disk'[q] = disk[q]
        /\ Whole(trade, disk', lost') /\ Whole(saved, disk', lost')
    BY <1>1, <1>3, <2>1, <2>3, UnzippedFacts
  <2>5. InstallInv'
    BY <1>1, <1>3, <2>1, <2>2 DEF InstallInv
  <2>6. ParametersLossExplained'
    <3>1. \A d \in Desc : InUse(d) # bin
      BY DEF InUse
    <3>2. QED BY <1>1, <2>4, <3>1, InUseFacts, ParametersKept
  <2>7. pc' \in Working
    BY <1>3 DEF Working, Installing
  <2>8. QED BY <1>1, <1>3, <2>4, <2>5, <2>6, <2>7, Held, WorkKeeps
<1>4. QED BY <1>2, <1>3 DEF Unzip

\* An image, or a zip of parameters, is deleted: no parameters in use.
LEMMA ImageDeleted ==
  ASSUME IInv, NEW e \in Files, DeleteFile(ImagePath(e)), e.d.kind = "PF" => e.d.zip,
         pc # "rename", dropped' = dropped
  PROVE  /\ disk' \in [Paths -> Seq(Pieces)] /\ ParametersLossExplained'
         /\ Whole(trade, disk', lost') /\ Whole(saved, disk', lost')
<1> DEFINE p == ImagePath(e)
<1>1. e.d \in Desc
  BY DEF Files
<1>2. p \in Paths
  BY <1>1, PathFacts
<1>3. /\ disk' \in [Paths -> Seq(Pieces)] /\ \A q \in Paths : q # p => disk'[q] = disk[q]
      /\ Whole(trade, disk', lost') /\ Whole(saved, disk', lost')
  BY <1>2, DeletedFacts
<1>4. ASSUME NEW d \in Desc, d.kind = "PF"
      PROVE  InUse(d) # p
  <2>1. ASSUME InUse(d) = p
        PROVE  FALSE
    <3>1. ~d.zip /\ d.name = e.d.name /\ e.d.kind = "PF"
      BY <1>4, <2>1, ImageFacts
    <3>2. d.zip = e.d.zip
      BY <1>1, <1>4, <3>1, FilesAssumption
    <3>3. QED BY <3>1, <3>2
  <2>2. QED BY <2>1
<1>5. ParametersLossExplained'
  BY <1>3, <1>4, InUseFacts, ParametersKept
<1>6. QED BY <1>3, <1>5

LEMMA ClearKeeps ==
  ASSUME IInv, Small', TokenInv', ClearZip
  PROVE  IInv'
<1>1. /\ pc = "clear" /\ pc \in Working /\ DeleteFile(ImagePath(Next1))
      /\ pc' = (IF Next1.d.kind = "PF" THEN "mark" ELSE "record")
      /\ saved' = saved /\ device' = device /\ trade' = trade /\ todo' = todo /\ dropped' = dropped
  BY DEF ClearZip, Working, Installing
<1>2. /\ todo # <<>> /\ \A k \in DOMAIN todo : todo[k] \in DOMAIN trade.files
      /\ Next1 \in Files
  BY <1>1, InstallFacts
<1>3. Next1.d.kind = "PF" => Next1.d.zip
  BY <1>1 DEF IInv, InstallInv, Installing
<1>4. /\ disk' \in [Paths -> Seq(Pieces)] /\ ParametersLossExplained'
      /\ Whole(trade, disk', lost') /\ Whole(saved, disk', lost')
  BY <1>1, <1>2, <1>3, ImageDeleted
<1>5. InstallInv'
  BY <1>1, <1>2 DEF InstallInv, Next1
<1>6. pc' \in Working
  BY <1>1 DEF Working, Installing
<1>7. QED BY <1>1, <1>4, <1>5, <1>6, Held, WorkKeeps

LEMMA RemoveKeeps ==
  ASSUME IInv, Small', TokenInv', RemoveImage
  PROVE  IInv'
<1>1. /\ pc = "remove" /\ pc \in Working /\ DeleteFile(ImagePath(Next1)) /\ Proceed
      /\ saved' = saved /\ device' = device /\ trade' = trade /\ dropped' = dropped
  BY DEF RemoveImage, Working, Installing
<1>2. Next1 \in Files
  BY <1>1, InstallFacts
<1>3. Next1.d.kind = "WB"
  BY <1>1 DEF IInv, InstallInv, Installing
<1>4. /\ disk' \in [Paths -> Seq(Pieces)] /\ ParametersLossExplained'
      /\ Whole(trade, disk', lost') /\ Whole(saved, disk', lost')
  BY <1>1, <1>2, <1>3, ImageDeleted
<1>5. todo' \in Seq(Nat) /\ pc' \in Working /\ InstallInv'
  BY <1>1, ProceedFacts
<1>6. QED BY <1>1, <1>4, <1>5, Held, WorkKeeps

\* A file of the download is marked.
LEMMA MarkedFacts ==
  ASSUME IInv, pc \in Working \ {"scrap", "finish"},
         \/ trade' = [trade EXCEPT !.files[todo[1]].st = "update"]
         \/ trade' = [trade EXCEPT !.files[todo[1]].out = TRUE],
         WriteStatus(trade'), disk' = disk, lost' = lost
  PROVE  /\ Fits(trade, InRam)' /\ trade'.cur > Len(trade'.files)
         /\ DOMAIN trade'.files = DOMAIN trade.files /\ trade'.files[todo[1]].d = Next1.d
         /\ Fits(saved, OnFlash)' /\ InOrder(saved')
         /\ Whole(trade', disk', lost') /\ Whole(saved', disk', lost')
<1> DEFINE i == todo[1]
<1>1. /\ Fits(trade, InRam) /\ trade.cur > Len(trade.files) /\ i \in DOMAIN trade.files
      /\ Next1 = trade.files[i] /\ Next1 \in Files
  BY InstallFacts
<1>2. /\ trade = [kind |-> trade.kind, files |-> trade.files, cur |-> trade.cur, ctx |-> trade.ctx]
      /\ trade.cur \in Nat \ {0} /\ trade.cur <= Len(trade.files) + 1 /\ trade.ctx \in Seq(Pieces)
      /\ Next1.pos <= Next1.d.size /\ trade.kind \in InRam
      /\ Len(trade.files) \in Nat /\ DOMAIN trade.files = 1..Len(trade.files)
  BY <1>1, TradeFacts
<1>3. PICK f \in {[Next1 EXCEPT !.st = "update"], [Next1 EXCEPT !.out = TRUE]} :
        trade' = [trade EXCEPT !.files = [trade.files EXCEPT ![i] = f]]
  BY <1>1
<1>4. /\ f \in Files /\ f.pos = Next1.pos /\ f.d = Next1.d /\ f.pos <= f.d.size
      /\ f.st = Next1.st \/ f.st = "update"
  BY <1>1, <1>2, <1>3 DEF Files
<1> DEFINE fs == [trade.files EXCEPT ![i] = f]
<1>5. trade' = [kind |-> trade.kind, files |-> fs, cur |-> trade.cur, ctx |-> trade.ctx]
  BY <1>2, <1>3
<1>6. /\ fs \in Seq(Files) /\ Len(fs) = Len(trade.files) /\ DOMAIN fs = DOMAIN trade.files
      /\ fs[i] = f /\ \A j \in DOMAIN trade.files : j # i => fs[j] = trade.files[j]
      /\ Fits([kind |-> trade.kind, files |-> fs, cur |-> trade.cur, ctx |-> trade.ctx], InRam)
  BY <1>1, <1>2, <1>4, FileFits
<1> HIDE DEF fs
<1>7. /\ trade'.kind = trade.kind /\ trade'.files = fs /\ trade'.cur = trade.cur
      /\ Fits(trade, InRam)'
  BY <1>5, <1>6
<1>8. Whole(trade', disk', lost')
  <2>1. \A j \in DOMAIN trade.files :
           /\ fs[j].d = trade.files[j].d
           /\ fs[j].st = trade.files[j].st \/ fs[j].st = "update"
    BY <1>1, <1>4, <1>6
  <2>2. QED BY <1>1, <1>6, <1>7, <2>1, Held, WholeMarked
<1>9. fs # <<>>
  <2>1. Len(fs) # 0
    BY <1>1, <1>2, <1>6
  <2>2. QED BY <1>6, <2>1, EmptySeq
<1>10. InOrder(trade')
  BY <1>1, <1>2, <1>6, <1>7, <1>9 DEF InOrder, InRam
<1>11. saved' = saved \/ saved' = trade'
  BY DEF WriteStatus
<1>12. Fits(saved, OnFlash)' /\ InOrder(saved') /\ Whole(saved', disk', lost')
  <2>1. CASE saved' = saved
    BY <2>1, Held, SavedNow
  <2>2. CASE saved' = trade'
    BY <1>7, <1>8, <1>10, <2>2, RamFitsFlash
  <2>3. QED BY <1>11, <2>1, <2>2
<1>13. QED BY <1>1, <1>4, <1>6, <1>7, <1>8, <1>12

LEMMA MarkKeeps ==
  ASSUME IInv, Small', TokenInv', MarkUpdated
  PROVE  IInv'
<1>1. /\ pc = "mark" /\ pc \in Working \ {"scrap", "finish"}
      /\ trade' = [trade EXCEPT !.files[todo[1]].st = "update"] /\ WriteStatus(trade')
      /\ disk' = disk /\ device' = device /\ lost' = lost /\ dropped' = dropped
      /\ \/ Proceed
         \/ Next1.d.kind = "WB" /\ pc' = "remove" /\ todo' = todo
  BY DEF MarkUpdated, marks, Working, Installing
<1>2. /\ Fits(trade, InRam)' /\ trade'.cur > Len(trade'.files)
      /\ DOMAIN trade'.files = DOMAIN trade.files /\ trade'.files[todo[1]].d = Next1.d
      /\ Fits(saved, OnFlash)' /\ InOrder(saved')
      /\ Whole(trade', disk', lost') /\ Whole(saved', disk', lost')
  BY <1>1, MarkedFacts
<1>3. todo' \in Seq(Nat) /\ pc' \in Working /\ InstallInv'
  <2>1. CASE Proceed
    BY <1>1, <1>2, <2>1, ProceedFacts
  <2>2. CASE Next1.d.kind = "WB" /\ pc' = "remove" /\ todo' = todo
    <3>1. /\ todo # <<>> /\ \A k \in DOMAIN todo : todo[k] \in DOMAIN trade.files
      BY <1>1, InstallFacts
    <3>2. Next1'.d = Next1.d
      BY <1>2, <2>2 DEF Next1
    <3>3. InstallInv'
      BY <1>2, <2>2, <3>1, <3>2 DEF InstallInv
    <3>4. QED BY <2>2, <3>3, Held DEF Working, Installing
  <2>3. QED BY <1>1, <2>1, <2>2
<1>4. ParametersLossExplained'
  BY <1>1, ParametersKept
<1>5. QED BY <1>1, <1>2, <1>3, <1>4, Held, InstallRestored

LEMMA RecordKeeps ==
  ASSUME IInv, Small', TokenInv', RecordImage
  PROVE  IInv'
<1>1. /\ pc = "record" /\ pc \in Working \ {"scrap", "finish"} /\ pc' = "install"
      /\ trade' = [trade EXCEPT !.files[todo[1]].out = TRUE] /\ WriteStatus(trade')
      /\ disk' = disk /\ device' = device /\ lost' = lost /\ dropped' = dropped /\ todo' = todo
  BY DEF RecordImage, marks, Working, Installing
<1>2. /\ Fits(trade, InRam)' /\ trade'.cur > Len(trade'.files)
      /\ DOMAIN trade'.files = DOMAIN trade.files
      /\ Fits(saved, OnFlash)' /\ InOrder(saved')
      /\ Whole(trade', disk', lost') /\ Whole(saved', disk', lost')
  BY <1>1, MarkedFacts
<1>3. todo # <<>> /\ \A k \in DOMAIN todo : todo[k] \in DOMAIN trade.files
  BY <1>1, InstallFacts
<1>4. InstallInv'
  BY <1>1, <1>2, <1>3 DEF InstallInv
<1>5. ParametersLossExplained'
  BY <1>1, ParametersKept
<1>6. pc' \in Working
  BY <1>1 DEF Working, Installing
<1>7. QED BY <1>1, <1>2, <1>4, <1>5, <1>6, Held, InstallRestored

LEMMA ImagesKeep ==
  ASSUME IInv, Small', TokenInv', UpdateWifi \/ UpdateSystem \/ UpdateApp
  PROVE  IInv'
<1>1. /\ pc = "install" /\ pc \in Working \ {"scrap", "finish"} /\ Next1.d.kind \in Systems
      /\ lost' = lost /\ dropped' = dropped
      /\ \/ GiveUp(<<>>)
         \/ /\ disk' = disk /\ saved' = saved /\ trade' = trade
            /\ device' = device \/ device' = [device EXCEPT ![Next1.d.kind] = Next1.d.ver]
            /\ Proceed \/ (Next1.d.kind = "WB" /\ pc' = "mark" /\ todo' = todo)
  BY DEF UpdateWifi, UpdateSystem, UpdateApp, Ready, marks, flash, Working, Installing, Systems, Kinds
<1>2. CASE GiveUp(<<>>)
  <2>1. GivenUp
    BY <1>1, <1>2 DEF GivenUp
  <2>2. QED BY <1>1, <2>1, GivenUpKeeps
<1>3. CASE /\ disk' = disk /\ saved' = saved /\ trade' = trade
           /\ device' = device \/ device' = [device EXCEPT ![Next1.d.kind] = Next1.d.ver]
           /\ Proceed \/ (Next1.d.kind = "WB" /\ pc' = "mark" /\ todo' = todo)
  <2>1. /\ todo # <<>> /\ \A k \in DOMAIN todo : todo[k] \in DOMAIN trade.files
        /\ Next1.d.ver \in Nat
    BY <1>1, InstallFacts
  <2>2. device' \in [Systems -> Nat]
    BY <1>1, <1>3, <2>1, Held
  <2>3. todo' \in Seq(Nat) /\ pc' \in Working /\ InstallInv'
    <3>1. CASE Proceed
      BY <1>1, <1>3, <3>1, ProceedFacts
    <3>2. CASE Next1.d.kind = "WB" /\ pc' = "mark" /\ todo' = todo
      <4>1. Next1' = Next1
        BY <1>3, <3>2 DEF Next1
      <4>2. InstallInv'
        BY <1>3, <2>1, <3>2, <4>1 DEF InstallInv
      <4>3. QED BY <3>2, <4>2, Held DEF Working, Installing
    <3>3. QED BY <1>3, <3>1, <3>2
  <2>4. ParametersLossExplained'
    BY <1>1, <1>3, ParametersKept
  <2>5. QED BY <1>1, <1>3, <2>2, <2>3, <2>4, Held, WorkKeeps
<1>4. QED BY <1>1, <1>2, <1>3

----------------------------------------------------------------------------
(* The invariant *)

LEMMA InitIInv == Init => IInv
<1> SUFFICES ASSUME Init PROVE IInv
  OBVIOUS
<1>1. /\ task \in Tasks /\ expired = 0 /\ lost = {} /\ dropped = {} /\ saved = NoInfo
      /\ device = [k \in Kinds \ {"PF"} |-> 1] /\ auth = FALSE /\ token = 0
      /\ pc = "idle" /\ trade = NoTrade /\ resent = FALSE /\ ret = "zero"
      /\ todo = <<>> /\ result = "none"
      /\ disk = [p \in Paths |->
                  IF \E d \in Desc : /\ d.name = p[1] /\ d.kind = "PF"
                                     /\ p[2] = (IF d.zip THEN "/ext/" ELSE "")
                  THEN OldParameters ELSE <<>>]
  BY DEF Init
<1>2. TypeOK
  <2>1. \A p \in Paths : disk[p] \in Seq(Pieces)
    BY <1>1, PieceFacts
  <2>2. disk \in [Paths -> Seq(Pieces)]
    BY <1>1, <2>1
  <2>3. Fits(saved, OnFlash) /\ Fits(trade, InRam)
    BY <1>1, NothingFits
  <2>4. todo \in Seq(Nat)
    BY <1>1, EmptySeq
  <2>5. device \in [Kinds \ {"PF"} -> Nat]
    BY <1>1
  <2>6. expired \in 0..MaxExpiries /\ token \in 0..(MaxExpiries + 1)
    <3>1. expired = 0 /\ token = 0 /\ MaxExpiries \in Nat
      BY <1>1, BoundsAssumption
    <3>2. QED BY <3>1
  <2>7. /\ task \in Tasks /\ resent \in BOOLEAN /\ auth \in BOOLEAN
        /\ ret \in {"zero", "junk"} /\ result \in {"none", "ok", "failed"} /\ pc = "idle"
    BY <1>1
  <2>8. QED BY <2>2, <2>3, <2>4, <2>5, <2>6, <2>7 DEF TypeOK, Fits, OnFlash, InRam
<1>3. TokenInv /\ PhaseInv
  <2>1. expired = 0 /\ token = 0 /\ pc = "idle" /\ saved = NoInfo /\ NoInfo.kind = "none"
    BY <1>1 DEF NoInfo, NoTrade
  <2>2. TokenInv
    BY <2>1 DEF TokenInv
  <2>3. PhaseInv
    BY <2>1 DEF PhaseInv, Fetching, Installing
  <2>4. QED BY <2>2, <2>3
<1>4. DownloadInv /\ MismatchInv /\ FlashInv /\ InstallInv
  <2>1. ~Listed(saved) /\ ~Listed(trade)
    BY <1>1 DEF NoInfo, NoTrade, Listed
  <2>2. QED BY <1>1, <2>1 DEF DownloadInv, MismatchInv, FlashInv, InstallInv, Fetching, Installing
<1>5. ParametersLossExplained
  <2>1. ASSUME NEW d \in Desc, d.kind = "PF"
        PROVE  disk[InUse(d)] # <<>>
    <3>1. /\ InUse(d) \in Paths /\ d.name = InUse(d)[1]
          /\ InUse(d)[2] = IF d.zip THEN "/ext/" ELSE ""
      BY InUseFacts
    <3>2. disk[InUse(d)] = OldParameters
      BY <1>1, <2>1, <3>1
    <3>3. QED BY <3>2, PieceFacts
  <2>2. QED BY <2>1 DEF ParametersLossExplained, InUse
<1>6. QED BY <1>2, <1>3, <1>4, <1>5 DEF IInv

LEMMA StepIInv == IInv /\ [Next]_vars => IInv'
<1> SUFFICES ASSUME IInv, [Next]_vars PROVE IInv'
  OBVIOUS
<1>1. Small' /\ TokenInv'
  BY StepSmall DEF IInv
<1>2. CASE Start \/ Connect \/ DeviceAuth \/ TermInfoUpload \/ PowerCut
  BY <1>1, <1>2, AsideSteps, AsideKeeps
<1>3. CASE Publish \/ ExpireToken \/ UNCHANGED vars
  BY <1>1, <1>3, AsideSteps, SameKeeps
<1>4. CASE RequestTask
  BY <1>1, <1>4, RequestFacts, AsideKeeps, ResumedKeeps, BegunKeeps
<1>5. CASE DelDownload
  BY <1>1, <1>5, DelDownloadKeeps
<1>6. CASE DelDownStatus
  BY <1>1, <1>6, DelDownStatusKeeps
<1>7. CASE FetchPiece
  BY <1>1, <1>7, FetchKeeps
<1>8. CASE NoAnswer \/ EmptyAnswer \/ CommitPiece \/ Reconnect \/ LeaveDownload
  BY <1>1, <1>8, DownloadKeeps
<1>9. CASE Discard
  BY <1>1, <1>9, DiscardKeeps
<1>10. CASE Uncommit
  BY <1>1, <1>10, UncommitKeeps
<1>11. CASE Notify
  BY <1>1, <1>11, NotifyKeeps
<1>12. CASE Told
  BY <1>1, <1>12, ToldKeeps
<1>13. CASE BeginUpdate
  BY <1>1, <1>13, BeginKeeps
<1>14. CASE DeleteOld
  BY <1>1, <1>14, DeleteOldKeeps
<1>15. CASE RenameNew
  BY <1>1, <1>15, RenameKeeps
<1>16. CASE UnzipParameters
  BY <1>1, <1>16, UnzipParametersKeeps
<1>17. CASE MarkUpdated
  BY <1>1, <1>17, MarkKeeps
<1>18. CASE Unzip
  BY <1>1, <1>18, UnzipKeeps
<1>19. CASE ClearZip
  BY <1>1, <1>19, ClearKeeps
<1>20. CASE RecordImage
  BY <1>1, <1>20, RecordKeeps
<1>21. CASE RemoveImage
  BY <1>1, <1>21, RemoveKeeps
<1>22. CASE UpdateWifi \/ UpdateSystem \/ UpdateApp
  BY <1>1, <1>22, ImagesKeep
<1>23. CASE FinishUpdate
  BY <1>1, <1>23, FinishKeeps
<1>24. QED
  BY <1>2, <1>3, <1>4, <1>5, <1>6, <1>7, <1>8, <1>9, <1>10, <1>11, <1>12, <1>13, <1>14, <1>15,
     <1>16, <1>17, <1>18, <1>19, <1>20, <1>21, <1>22, <1>23 DEF Next, Thread

\* The inductive invariant of the whole upgrade, with a flash that can fail at
\* any deletion and write whose result is ignored, and power that can fail
\* between any two (TmsRemoteUpgrade, Tms_DownloadUrlFilesOneByOne,
\* Tms_DelAllDownloadInfo, Tms_Notify, TmsUpdate_Api).
THEOREM IInvIsInvariant == Spec => []IInv
BY InitIInv, StepIInv, PTL DEF Spec

\* Every variable of the device keeps its type, whatever answers, resumptions and
\* power failures there are (tms_tms.c).
THEOREM TypeCorrect == Spec => []TypeOK
<1>1. IInv => TypeOK
  BY DEF IInv
<1>2. QED BY <1>1, IInvIsInvariant, PTL

\* A file counted as complete is whole on the flash, but for a file the device
\* itself deleted or moved away while its status file, after a power failure or an
\* unnoticed failed write, still counted on it (Tms_WriteFile,
\* Tms_DelAllDownloadInfo, TmsUpdate_Api).
THEOREM CompleteFilesAreVerified == Spec => []CompleteIsVerified
<1>1. IInv => CompleteIsVerified
  <2> SUFFICES ASSUME IInv, pc \in {"download", "commit", "reconnect", "notify", "told"}
               PROVE  \A i \in DOMAIN trade.files :
                         trade.files[i].st = "complete" => Verified(trade.files[i]) \/ Gone(trade.files[i].d)
    BY DEF CompleteIsVerified
  <2>1. Listed(trade)
    BY FetchingFacts DEF Fetching, Listed
  <2>2. QED BY <2>1 DEF IInv, FlashInv, Intact
<1>2. QED BY <1>1, IInvIsInvariant, PTL

\* A wrong MD5 has its cause in an answer, never in a resumed context or in the
\* file before (Tms_DownloadUrlFilesOneByOne, _tms_MD5Init).
THEOREM MismatchesHaveCauses == Spec => []MismatchExplained
<1>1. IInv => MismatchExplained
  <2> SUFFICES ASSUME IInv, pc = "discard",
                      \A i \in DOMAIN trade.ctx :
                         trade.ctx[i] # Bad /\ trade.ctx[i][2] = Current.d.build
               PROVE  FALSE
    BY DEF MismatchExplained
  <2> DEFINE ctx == trade.ctx
             d == Current.d
  <2>1. Len(ctx) = d.size /\ ctx # Content(d) /\ Answered(ctx, d)
    BY DEF IInv, MismatchInv
  <2>2. /\ Fits(trade, InRam) /\ trade.cur <= Len(trade.files)
    BY Typed DEF IInv, PhaseInv
  <2>3. /\ ctx \in Seq(Pieces) /\ DOMAIN ctx = 1..Len(ctx) /\ d \in Desc
    <3>1. /\ ctx \in Seq(Pieces) /\ DOMAIN ctx = 1..Len(ctx)
          /\ trade.cur \in Nat \ {0} /\ Len(trade.files) \in Nat
          /\ DOMAIN trade.files = 1..Len(trade.files)
          /\ \A i \in DOMAIN trade.files : trade.files[i].d \in Desc
      BY <2>2, TradeFacts
    <3>2. trade.cur \in DOMAIN trade.files
      BY <2>2, <3>1
    <3>3. QED BY <3>1, <3>2 DEF Current
  <2>4. \A i \in 1..d.size : ctx[i] = <<d.ver, d.build, i>>
    BY <2>1, <2>3 DEF Answered
  <2>5. /\ Content(d) \in Seq(Pieces) /\ Len(Content(d)) = d.size
        /\ \A i \in 1..d.size : Content(d)[i] = <<d.ver, d.build, i>>
    BY <2>3, ContentFacts
  <2>6. ctx = Content(d)
    <3>1. Len(ctx) = Len(Content(d)) /\ \A i \in 1..Len(ctx) : ctx[i] = Content(d)[i]
      BY <2>1, <2>4, <2>5
    <3> HIDE DEF ctx, d
    <3>2. QED BY <2>3, <2>5, <3>1, SeqEqual
  <2>7. QED BY <2>1, <2>6
<1>2. QED BY <1>1, IInvIsInvariant, PTL

\* Parameters in use are gone only during their own replacement, after it was cut
\* short or failed, or when a thrown-away download took them with it
\* (TmsUpdate_Api, Tms_DelAllDownloadInfo); unzipped ones never are.
THEOREM ParametersLossesHaveCauses == Spec => []ParametersLossExplained
<1>1. IInv => ParametersLossExplained
  BY DEF IInv
<1>2. QED BY <1>1, IInvIsInvariant, PTL

\* The server hears of success only about a file of the list whose every piece is
\* on the flash, or that the device itself deleted or moved away as above; and of
\* failure only about one it has already installed (Tms_Notify).
THEOREM NotificationsAreTrue == Spec => NotifyHasFile
<1> DEFINE Justified == \A x \in notified' \ notified :
                          \E i \in DOMAIN trade.files :
                              LET e == trade.files[i]
                              IN  /\ <<e.d.name, e.d.ver>> = <<x[1], x[2]>>
                                  /\ IF x[3] = 0 THEN Verified(e) \/ Gone(e.d) ELSE e.st = "update"
<1>1. ASSUME IInv, Notify
      PROVE  Justified
  <2> DEFINE i == todo[1]
             e == trade.files[i]
  <2>1. /\ pc = "notify" /\ i \in DOMAIN trade.files /\ trade.cur > Len(trade.files)
        /\ Progress(trade) /\ Intact(trade) /\ Fits(trade, InRam)
    <3>1. pc = "notify" /\ i \in DOMAIN trade.files /\ trade.cur > Len(trade.files)
      BY <1>1 DEF Notify, IInv, PhaseInv
    <3>2. Listed(trade) /\ Progress(trade) /\ Fits(trade, InRam)
      BY <1>1, <3>1, FetchingFacts DEF Fetching, Listed
    <3>3. QED BY <1>1, <3>1, <3>2 DEF IInv, FlashInv
  <2>2. /\ trade.cur \in Nat /\ Len(trade.files) \in Nat /\ DOMAIN trade.files = 1..Len(trade.files)
        /\ e \in Files
    BY <2>1, TradeFacts
  <2>3. e.st = "complete" \/ e.st = "update"
    BY <2>1, <2>2 DEF Progress, Files
  <2>4. e.st = "complete" => Verified(e) \/ Gone(e.d)
    BY <2>1 DEF Intact
  <2>5. notified' = notified \cup {<<e.d.name, e.d.ver, IF e.st = "complete" THEN 0 ELSE 2>>}
        \/ notified' = notified
    BY <1>1 DEF Notify, NotifyPacket, Packet
  <2> HIDE DEF e, i
  <2>6. ASSUME NEW x \in notified' \ notified
        PROVE  /\ x[1] = e.d.name /\ x[2] = e.d.ver
               /\ IF x[3] = 0 THEN Verified(e) \/ Gone(e.d) ELSE e.st = "update"
    <3>1. x = <<e.d.name, e.d.ver, IF e.st = "complete" THEN 0 ELSE 2>>
      BY <2>5
    <3>2. x[1] = e.d.name /\ x[2] = e.d.ver /\ x[3] = IF e.st = "complete" THEN 0 ELSE 2
      BY <3>1
    <3>3. QED BY <2>3, <2>4, <3>2
  <2>7. QED BY <2>1, <2>6 DEF e
<1>2. ASSUME [Next]_vars, ~Notify
      PROVE  notified' = notified
  BY <1>2 DEF Next, Thread, vars, Start, Connect, DeviceAuth, TermInfoUpload, RequestTask,
     DelDownload, DelDownStatus, FetchPiece, EmptyAnswer, NoAnswer, CommitPiece, Reconnect,
     Discard, Uncommit, LeaveDownload, Told, BeginUpdate, DeleteOld, RenameNew,
     UnzipParameters, MarkUpdated, Unzip, ClearZip, RecordImage, UpdateWifi, RemoveImage,
     UpdateSystem, UpdateApp, FinishUpdate, Publish, ExpireToken, PowerCut
<1>3. IInv /\ [Next]_vars => [Justified]_vars
  BY <1>1, <1>2
<1>4. QED BY <1>3, IInvIsInvariant, PTL DEF Spec, NotifyHasFile

=============================================================================
