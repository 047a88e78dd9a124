------------------------------ MODULE KeyReset ------------------------------
(***************************************************************************)
(* Giving keys to a scanner: PUT /new-keys (internal/server/routes.go)     *)
(* against the scan loops (internal/daemon/scan.go), their contexts        *)
(* (internal/daemon/daemon.go), the wallet file, and the main goroutine of *)
(* a process that was started without keys (cmd/blindbit-scan/main.go).    *)
(*                                                                         *)
(* d.Wallet is a pointer that every step of a loop reads again, and d.ctx  *)
(* a context that Cancel replaces.  A loop learns that it was cancelled    *)
(* only from its "abort" variable, set by a watcher goroutine that reads   *)
(* d.ctx when it first runs and waits for that context.                    *)
(*                                                                         *)
(* Without keys there is no loop.  main waits on KeysReadyChan, where a    *)
(* goroutine of the handler announces the keys, and then sets up a second  *)
(* daemon of its own, with a wallet loaded from disk and a loop that no    *)
(* request can reach: the server keeps the first one.                      *)
(*                                                                         *)
(* Every request brings its own keys, and names the wallet object and the  *)
(* loop made for it; Boot names those of the start of the process, Second  *)
(* those of the second daemon.  The chain is fixed: heights up to          *)
(* MaxHeight are served, and block h pays the keys k with <<k, h>> \in     *)
(* pays.  Spends, electrum and rescans are in module Scanner.              *)
(***************************************************************************)
EXTENDS Integers, FiniteSets

CONSTANTS
  Boot,         \* the keys of the config-file at the start, if it has any
  Second,       \* the wallet and the loop of the second daemon
  Reqs,         \* PUT /new-keys requests, each with keys of its own
  Birth,        \* every wallet's birth height; requests ask for at least 1
  MaxHeight,    \* the chain tip
  MaxServed,    \* bound: how many requests do not fail
  Quiet,        \* requests meet idle loops, which take no tick while a handler
                \* runs, and one another never; nothing in the code sees to it
  PutFails      \* a handler, or the set-up of the second daemon, may fail

None == "none"
Keys == Reqs \cup {Boot}
Names == Keys \cup {Second}   \* of wallets and loops

ASSUME KeyResetAssumption ==
  /\ Boot \notin Reqs /\ Second \notin Reqs /\ Boot # Second
  /\ None \notin Names
  /\ Birth \in Nat \ {0}
  /\ MaxHeight \in Nat /\ MaxServed \in Nat
  /\ Quiet \in BOOLEAN /\ PutFails \in BOOLEAN

Height == Birth..MaxHeight

VARIABLES
  pays,      \* which block pays which keys
  config,    \* config.ScanSecretKey and config.SpendPubKey
  viper,     \* the same keys among the values of viper, which are those it writes
  file,      \* the same keys in the config-file
  wallets,   \* the wallet objects, by the request that made them
  current,   \* d.Wallet of the first daemon, the one the server has
  ctx,       \* its d.ctx: how often it has been replaced
  disk,      \* the wallet file: {} when there is none, or what it loads as
  text,      \* how it reads: "whole" unless it is "empty" or "torn", and does not parse
  put,       \* where each handler stands
  announce,  \* where the goroutine stands that announces its keys
  address,   \* whose address the handler answered with
  main,      \* where the goroutine of main stands
  loops      \* the ContinuousScan goroutines

conf == <<config, viper, file>>
server == <<conf, ctx, put, address>>
store == <<disk, text>>
start == <<announce, main>>
vars == <<pays, wallets, current, store, loops, server, start>>

NoCtx == -1    \* a watcher that has not run yet
KeyPair == [scan : Keys \cup {None}, spend : Keys \cup {None}]
KeysOf(k) == [scan |-> k, spend |-> k]
Wallet == [keys : KeyPair, last : Nat, utxos : SUBSET (Keys \X Height)]

\* What a wallet file that does not parse is loaded as, beside an error.
ZeroWallet == [keys |-> KeysOf(None), last |-> 0, utxos |-> {}]

\* What a block sync finds: outputs need both halves of one key pair.
Found(keys, h) == {c \in pays : c = <<keys.scan, h>> /\ keys.scan = keys.spend}

\* SetupWallet from the globals.  With birth height 1 block 1 counts as processed.
NewWallet(keys) ==
  [keys |-> keys, last |-> IF Birth > 1 THEN Birth - 1 ELSE Birth, utxos |-> {}]

\* TryLoadWalletFromDisk: the file, or a new wallet when there is none.
Load(keys) == IF disk = {} THEN NewWallet(keys) ELSE CHOOSE w \in disk : TRUE

-----------------------------------------------------------------------------
(* A loop: pc, and                                                         *)
(*   stop, inner    "abort" of ContinuousScan and of the SyncToTip in it   *)
(*   watch, iwatch  the context their watchers wait for                    *)
(*   i, owned       the block in work and what syncBlock returned          *)
(*   checked        the value of !abort that guards LastScanHeight = i     *)
(*   data           what it has serialised for the file it has open, {} if *)
(*                  that file was removed since                            *)

PC == {"none", "delayed", "top", "select", "block", "fetch", "match", "add", "guard",
       "height", "save", "fill", "ended"}

Loop == [pc : PC, stop : BOOLEAN, inner : BOOLEAN, watch : {NoCtx} \cup Nat,
         iwatch : {NoCtx} \cup Nat, i : Nat, owned : SUBSET (Keys \X Height),
         checked : BOOLEAN, data : SUBSET Wallet]

NoLoop == [pc |-> "none", stop |-> FALSE, inner |-> FALSE, watch |-> NoCtx,
           iwatch |-> NoCtx, i |-> 0, owned |-> {}, checked |-> FALSE, data |-> {}]

Types ==
  /\ pays \subseteq Keys \X Height
  /\ config \in KeyPair /\ viper \in KeyPair /\ file \in KeyPair
  /\ wallets \in [Names -> Wallet]
  /\ current \in Keys \cup {None}
  /\ ctx \in Nat
  /\ disk \subseteq Wallet /\ Cardinality(disk) <= 1
  /\ text \in {"whole", "empty", "torn"}
  /\ text # "whole" => disk = {ZeroWallet}
  /\ put \in [Reqs -> {"new", "vscan", "vspend", "scan", "spend", "config", "setup",
                       "cancel", "remove", "assign", "answer", "done", "failed"}]
  /\ announce \in [Reqs -> {"none", "look", "send", "done"}]
  /\ address \in [Reqs -> Keys \cup {None}]
  /\ main \in {"waiting", "setup", "running", "down"}
  /\ loops \in [Names -> Loop]

\* Every request replaces the context once.
TypeOK == Types /\ ctx <= Cardinality(Reqs)

Running == {l \in Names : loops[l].pc \notin {"none", "delayed", "ended"}}
Handling == {r \in Reqs : put[r] \notin {"new", "done", "failed"}}
Idle(l) == loops[l].pc = "select" /\ loops[l].watch # NoCtx

\* The wallet and the context of the daemon that loop l belongs to.
Mine(l) == IF l = Second THEN Second ELSE current
Ctx(l) == IF l = Second THEN 0 ELSE ctx

Set(l, upd) == loops' = [loops EXCEPT ![l] = upd]

\* SyncToTip returns: its locals are gone, ContinuousScan goes to its top.
EndSync(l) ==
  Set(l, [loops[l] EXCEPT !.pc = "top", !.inner = FALSE, !.iwatch = NoCtx, !.i = 0,
                          !.owned = {}, !.checked = FALSE, !.data = {}])

\* ContinuousScan starts: five seconds after the handler assigned the wallet.
StartLoop(l) ==
  /\ loops[l].pc = "delayed"
  /\ Set(l, [loops[l] EXCEPT !.pc = "top"])
  /\ UNCHANGED <<pays, wallets, current, store, server, start>>

\* The top of the for loop, the only place that looks at ContinuousScan's abort.
LoopTop(l) ==
  /\ loops[l].pc = "top"
  /\ Set(l, IF loops[l].stop THEN [NoLoop EXCEPT !.pc = "ended"]
                             ELSE [loops[l] EXCEPT !.pc = "select"])
  /\ UNCHANGED <<pays, wallets, current, store, server, start>>

\* A watcher goroutine runs: it reads d.ctx, or finds its context cancelled.
Watch(l) ==
  /\ l \in Running
  /\ \/ /\ loops[l].watch = NoCtx
        /\ Set(l, [loops[l] EXCEPT !.watch = Ctx(l)])
     \/ /\ loops[l].watch \in 0..(Ctx(l) - 1)
        /\ ~loops[l].stop
        /\ Set(l, [loops[l] EXCEPT !.stop = TRUE])
     \/ /\ loops[l].i # 0
        /\ loops[l].iwatch = NoCtx
        /\ Set(l, [loops[l] EXCEPT !.iwatch = Ctx(l)])
     \/ /\ loops[l].iwatch \in 0..(Ctx(l) - 1)
        /\ ~loops[l].inner
        /\ Set(l, [loops[l] EXCEPT !.inner = TRUE])
  /\ UNCHANGED <<pays, wallets, current, store, server, start>>

\* A ticker, the initial trigger or a new block: SyncToTip reads the start height
\* off the wallet of this moment.  Nothing to scan takes it back to the top.
Tick(l) ==
  LET from == wallets[Mine(l)].last + 1 IN
  /\ loops[l].pc = "select"
  /\ Quiet /\ l # Second => Handling = {}
  /\ Set(l, IF from <= MaxHeight
              THEN [loops[l] EXCEPT !.pc = "block", !.i = from]
              ELSE [loops[l] EXCEPT !.pc = "top"])
  /\ UNCHANGED <<pays, wallets, current, store, server, start>>

\* The head of the for loop over heights looks at SyncToTip's abort.
NextBlock(l) ==
  /\ loops[l].pc = "block"
  /\ IF loops[l].inner \/ loops[l].i > MaxHeight
       THEN EndSync(l)
       ELSE Set(l, [loops[l] EXCEPT !.pc = "fetch"])
  /\ UNCHANGED <<pays, wallets, current, store, server, start>>

\* syncBlock(i) asks for the tweaks and derives scripts from them with the keys of the
\* wallet of this moment; a request may fail.
SyncBlock(l, ok) ==
  LET owned == Found(wallets[Mine(l)].keys, loops[l].i) IN
  /\ loops[l].pc = "fetch"
  /\ IF ok THEN Set(l, [loops[l] EXCEPT !.pc = IF owned = {} THEN "guard" ELSE "match",
                                        !.owned = owned])
           ELSE EndSync(l)
  /\ UNCHANGED <<pays, wallets, current, store, server, start>>

\* Slip: when the second request fails, the block counts as one without coins.
MatchNothingOnError(l, ok) ==
  LET now == Found(wallets[Mine(l)].keys, loops[l].i) IN
  /\ loops[l].pc = "match"
  /\ \E owned \in IF ok THEN {now, now \cap loops[l].owned} ELSE {{}} :
        Set(l, [loops[l] EXCEPT !.pc = IF owned = {} THEN "guard" ELSE "add",
                                !.owned = owned])
  /\ UNCHANGED <<pays, wallets, current, store, server, start>>

\* The rest of syncBlock(i), after the request for the outputs: it scans the
\* transactions that hold a derived script, with the keys of the wallet of this moment.
\* If these are others, their coin may be in such a transaction or not.
MatchOutputs(l, ok) ==
  LET now == Found(wallets[Mine(l)].keys, loops[l].i) IN
  /\ loops[l].pc = "match"
  /\ IF ok THEN \E owned \in {now, now \cap loops[l].owned} :
                  Set(l, [loops[l] EXCEPT !.pc = IF owned = {} THEN "guard" ELSE "add",
                                          !.owned = owned])
           ELSE EndSync(l)
  /\ UNCHANGED <<pays, wallets, current, store, server, start>>

\* AddUTXOs into the wallet of this moment.
AddOwnedUTXOs(l) ==
  /\ loops[l].pc = "add"
  /\ wallets' = [wallets EXCEPT ![Mine(l)].utxos = @ \cup loops[l].owned]
  /\ Set(l, [loops[l] EXCEPT !.pc = "guard"])
  /\ UNCHANGED <<pays, current, store, server, start>>

\* if !abort ...
CheckAbort(l) ==
  /\ loops[l].pc = "guard"
  /\ Set(l, [loops[l] EXCEPT !.pc = "height", !.checked = ~loops[l].inner])
  /\ UNCHANGED <<pays, wallets, current, store, server, start>>

\* ... d.Wallet.LastScanHeight = i.  A block with coins is followed by a save, one
\* without by a save now and then.
SetLastScanHeight(l) ==
  /\ loops[l].pc = "height"
  /\ wallets' = IF loops[l].checked
                  THEN [wallets EXCEPT ![Mine(l)].last = loops[l].i] ELSE wallets
  /\ \/ Set(l, [loops[l] EXCEPT !.pc = "save"])
     \/ /\ loops[l].owned = {}
        /\ Set(l, [loops[l] EXCEPT !.pc = "block", !.i = @ + 1, !.checked = FALSE])
  /\ UNCHANGED <<pays, current, store, server, start>>

\* WriteWalletToDB serialises the wallet of this moment and truncates the file.
TruncateFile(l, ok) ==
  /\ loops[l].pc = "save"
  /\ IF ok THEN /\ disk' = {ZeroWallet} /\ text' = "empty"
                /\ Set(l, [loops[l] EXCEPT !.pc = "fill", !.data = {wallets[Mine(l)]}])
           ELSE EndSync(l) /\ UNCHANGED store
  /\ UNCHANGED <<pays, wallets, current, server, start>>

Tear == disk' = {ZeroWallet} /\ text' = "torn"

\* A write to a file that was removed since is lost; one over what another loop has
\* written since may leave the tail of a longer text.
Overlay(data) ==
  IF data = {} THEN UNCHANGED store
  ELSE \/ disk' = data /\ text' = "whole"
       \/ text # "empty" /\ Tear

\* SyncToTip goes on with the next block.
NextHeight(l) ==
  Set(l, [loops[l] EXCEPT !.pc = "block", !.i = @ + 1, !.owned = {}, !.checked = FALSE,
                          !.data = {}])

\* Slip: the file is appended to, not replaced.
FillFileAppending(l, ok) ==
  /\ loops[l].pc = "fill"
  /\ IF ok THEN disk' = disk \cup loops[l].data /\ text' = "whole" /\ NextHeight(l)
           ELSE EndSync(l) /\ UNCHANGED store
  /\ UNCHANGED <<pays, wallets, current, server, start>>

\* A write that fails may have written a part.
FillFile(l, ok) ==
  /\ loops[l].pc = "fill"
  /\ \/ ok /\ Overlay(loops[l].data) /\ NextHeight(l)
     \/ ~ok /\ UNCHANGED store /\ EndSync(l)
     \/ ~ok /\ loops[l].data # {} /\ Tear /\ EndSync(l)
  /\ UNCHANGED <<pays, wallets, current, server, start>>

-----------------------------------------------------------------------------
(* The handler of PUT /new-keys.                                           *)

Step(r, from, to) == put[r] = from /\ put' = [put EXCEPT ![r] = to]

\* A request arrives.  When Quiet, it is the only one, every loop of its daemon
\* sits in its select statement with its watcher in place, none is about to
\* start, and main has done what the last one asked for.
Arrive(r) ==
  /\ Step(r, "new", "vscan")
  /\ main # "down"
  /\ Cardinality({q \in Reqs : put[q] \notin {"new", "failed"}}) < MaxServed
  /\ Quiet => /\ Handling = {}
              /\ \A l \in Running \ {Second} : Idle(l)
              /\ \A l \in Keys : loops[l].pc # "delayed"
              /\ \A q \in Reqs : announce[q] \in {"none", "done"}
              /\ main # "setup"
  /\ UNCHANGED <<pays, wallets, current, store, loops, conf, ctx, address, start>>

\* viper.Set of the scan key, before the spend key is decoded.
SetViperScanKey(r) ==
  /\ Step(r, "vscan", "vspend")
  /\ viper' = [viper EXCEPT !.scan = r]
  /\ UNCHANGED <<pays, wallets, current, store, loops, config, file, ctx, address, start>>

SetViperSpendKey(r) ==
  /\ \/ /\ Step(r, "vspend", "scan")
        /\ viper' = [viper EXCEPT !.spend = r]
     \/ /\ PutFails
        /\ Step(r, "vspend", "failed")
        /\ UNCHANGED viper
  /\ UNCHANGED <<pays, wallets, current, store, loops, config, file, ctx, address, start>>

\* Slip: config.ScanSecretKey keeps its value.
KeepScanKey(r) ==
  /\ Step(r, "scan", "spend")
  /\ UNCHANGED <<pays, wallets, current, store, loops, conf, ctx, address, start>>

SetScanKey(r) ==
  /\ Step(r, "scan", "spend")
  /\ config' = [config EXCEPT !.scan = r]
  /\ UNCHANGED <<pays, wallets, current, store, loops, viper, file, ctx, address, start>>

SetSpendKey(r) ==
  /\ Step(r, "spend", "config")
  /\ config' = [config EXCEPT !.spend = r]
  /\ UNCHANGED <<pays, wallets, current, store, loops, viper, file, ctx, address, start>>

\* viper.WriteConfig, and the goroutine that will announce the keys.
WriteConfig(r) ==
  /\ \/ /\ Step(r, "config", "setup")
        /\ file' = viper
        /\ announce' = [announce EXCEPT ![r] = "look"]
     \/ /\ PutFails
        /\ Step(r, "config", "failed")
        /\ UNCHANGED <<file, announce>>
  /\ UNCHANGED <<pays, wallets, current, store, loops, config, viper, ctx, address, main>>

\* Slip: the new wallet starts at the height of the old one.
SetupWalletAtHeight(r) ==
  /\ \/ /\ Step(r, "setup", "cancel")
        /\ wallets' = [wallets EXCEPT ![r] =
             IF current = None THEN NewWallet(config)
             ELSE [NewWallet(config) EXCEPT !.last = wallets[current].last]]
     \/ /\ PutFails
        /\ Step(r, "setup", "failed")
        /\ UNCHANGED wallets
  /\ UNCHANGED <<pays, current, store, loops, conf, ctx, address, start>>

\* SetupWallet from the globals of this moment.
SetupWallet(r) ==
  /\ \/ /\ Step(r, "setup", "cancel")
        /\ wallets' = [wallets EXCEPT ![r] = NewWallet(config)]
     \/ /\ PutFails
        /\ Step(r, "setup", "failed")
        /\ UNCHANGED wallets
  /\ UNCHANGED <<pays, current, store, loops, conf, ctx, address, start>>

\* Slip: d.ctx is cancelled and made anew by nobody.
CancelNothing(r) ==
  /\ Step(r, "cancel", "remove")
  /\ UNCHANGED <<pays, wallets, current, store, loops, conf, ctx, address, start>>

\* ResetDaemonAndWallet: Cancel, then os.Remove, which may fail.
Cancel(r) ==
  /\ Step(r, "cancel", "remove")
  /\ ctx' = ctx + 1
  /\ UNCHANGED <<pays, wallets, current, store, loops, conf, address, start>>

\* Slip: the wallet file stays.
KeepFile(r) ==
  /\ \/ Step(r, "remove", "assign")
     \/ PutFails /\ Step(r, "remove", "failed")
  /\ UNCHANGED <<pays, wallets, current, store, loops, conf, ctx, address, start>>

\* What a loop still writes to a removed file is lost.
RemoveFile(r) ==
  /\ \/ /\ Step(r, "remove", "assign")
        /\ disk' = {} /\ text' = "whole"
        /\ loops' = [l \in Names |-> [loops[l] EXCEPT !.data = {}]]
     \/ PutFails /\ Step(r, "remove", "failed") /\ UNCHANGED <<store, loops>>
  /\ UNCHANGED <<pays, wallets, current, conf, ctx, address, start>>

\* Slip: the keys of the wallet in use are replaced, its coins stay.
AssignKeys(r) ==
  /\ Step(r, "assign", "answer")
  /\ IF current = None
       THEN current' = r /\ UNCHANGED wallets
       ELSE /\ wallets' = [wallets EXCEPT ![current].keys = wallets[r].keys]
            /\ UNCHANGED current
  /\ Set(r, [NoLoop EXCEPT !.pc = "delayed"])
  /\ UNCHANGED <<pays, store, conf, ctx, address, start>>

\* Slip: no loop is started for the new wallet.
AssignWalletOnly(r) ==
  /\ Step(r, "assign", "answer")
  /\ current' = r
  /\ UNCHANGED <<pays, wallets, store, loops, conf, ctx, address, start>>

\* s.Daemon.Wallet = newWallet, and the goroutine that starts the new loop.
AssignWallet(r) ==
  /\ Step(r, "assign", "answer")
  /\ current' = r
  /\ Set(r, [NoLoop EXCEPT !.pc = "delayed"])
  /\ UNCHANGED <<pays, wallets, store, conf, ctx, address, start>>

\* The answer: the address of the wallet of this moment, if it can be generated.
AnswerAddress(r) ==
  /\ \/ /\ Step(r, "answer", "done")
        /\ address' = [address EXCEPT ![r] = wallets[current].keys.scan]
     \/ /\ PutFails
        /\ Step(r, "answer", "failed")
        /\ UNCHANGED address
  /\ UNCHANGED <<pays, wallets, current, store, loops, conf, ctx, start>>

-----------------------------------------------------------------------------
(* The start without keys.                                                 *)

\* Slip: the keys are announced whether or not there were some.
AnnounceAlways(r) ==
  /\ announce[r] = "look"
  /\ announce' = [announce EXCEPT ![r] = "send"]
  /\ UNCHANGED <<pays, wallets, current, store, loops, server, main>>

\* The handler's goroutine looks at the wallet of this moment.
LookForWallet(r) ==
  /\ announce[r] = "look"
  /\ announce' = [announce EXCEPT ![r] = IF current = None THEN "send" ELSE "done"]
  /\ UNCHANGED <<pays, wallets, current, store, loops, server, main>>

\* KeysReadyChan has no buffer: the goroutine and main meet.
KeysReady(r) ==
  /\ announce[r] = "send"
  /\ main = "waiting"
  /\ announce' = [announce EXCEPT ![r] = "done"]
  /\ main' = "setup"
  /\ UNCHANGED <<pays, wallets, current, store, loops, server>>

\* The panic of a goroutine ends the process.
Panic ==
  /\ main' = "down"
  /\ loops' = [l \in Names |-> NoLoop]
  /\ put' = [r \in Reqs |-> IF r \in Handling THEN "failed" ELSE put[r]]
  /\ announce' = [r \in Reqs |-> "done"]

\* SetupDaemon loads the wallet from disk, or makes one of the globals; it fails
\* if electrum does not answer or the file does not parse, and main panics.
SetupDaemon(ok) ==
  /\ main = "setup"
  /\ ok \/ PutFails
  /\ IF ok /\ text = "whole"
       THEN /\ wallets' = [wallets EXCEPT ![Second] = Load(config)]
            /\ Set(Second, [NoLoop EXCEPT !.pc = "top"])
            /\ main' = "running"
            /\ UNCHANGED <<put, announce>>
       ELSE Panic /\ UNCHANGED wallets
  /\ UNCHANGED <<pays, current, store, conf, ctx, address>>

-----------------------------------------------------------------------------
\* With keys, main starts a loop on the wallet of the file, or a new one when
\* there is no file.  Without keys in the config-file there is no wallet.  A file that
\* does not parse gives the zero wallet; so does a whole one that such a process has
\* saved when it ended.  No loop is started then, whatever the config-file says.
StartWithKeys ==
  /\ pays \in SUBSET (Keys \X Height)
  /\ config = KeysOf(Boot)
  /\ disk \in {{}, {NewWallet(config)}} /\ text = "whole"
  /\ current = Boot
  /\ main = "running"
  /\ loops = [l \in Names |-> IF l = Boot THEN [NoLoop EXCEPT !.pc = "top"] ELSE NoLoop]

StartWithoutKeys ==
  /\ pays \in SUBSET (Reqs \X Height)
  /\ \/ config = KeysOf(None) /\ disk = {} /\ text = "whole"
     \/ config = KeysOf(Boot) /\ disk = {ZeroWallet} /\ text \in {"whole", "empty", "torn"}
  /\ current = None
  /\ main = "waiting"
  /\ loops = [l \in Names |-> NoLoop]

Init ==
  /\ StartWithKeys \/ StartWithoutKeys
  /\ viper = config /\ file = config
  /\ wallets = [l \in Names |-> NewWallet(KeysOf(IF l = Second THEN None ELSE l))]
  /\ ctx = 0
  /\ put = [r \in Reqs |-> "new"]
  /\ announce = [r \in Reqs |-> "none"]
  /\ address = [r \in Reqs |-> None]

Put(r) ==
  Arrive(r) \/ SetViperScanKey(r) \/ SetViperSpendKey(r)
  \/ SetScanKey(r) \/ SetSpendKey(r) \/ WriteConfig(r) \/ SetupWallet(r)
  \/ Cancel(r) \/ RemoveFile(r) \/ AssignWallet(r) \/ AnswerAddress(r)

Announce(r) == LookForWallet(r) \/ KeysReady(r)

Scan(l) ==
  \/ StartLoop(l) \/ LoopTop(l) \/ Tick(l) \/ NextBlock(l) \/ AddOwnedUTXOs(l)
  \/ CheckAbort(l) \/ SetLastScanHeight(l)
  \/ \E ok \in BOOLEAN : \/ SyncBlock(l, ok) \/ MatchOutputs(l, ok)
                       \/ TruncateFile(l, ok) \/ FillFile(l, ok)

Next ==
  \/ \E r \in Reqs : Put(r) \/ Announce(r)
  \/ \E ok \in BOOLEAN : SetupDaemon(ok)
  \/ \E l \in Names : Scan(l) \/ Watch(l)

Spec == Init /\ [][Next]_vars

-----------------------------------------------------------------------------
(* Safety.  All of it but the first is about Quiet requests; the comments   *)
(* of the code state the first without such a condition.                   *)

\* "used when new keys are added such that scanning continues from scratch"
\* (daemon.go:110), "otherwise the scan height will be overriden between key reset
\* and cleaning up of sync loop" (scan.go:251): a wallet's height covers only
\* blocks scanned with its own keys, although an old loop may still be running.  Block 1
\* is left out: with birth height 1 SetupWallet counts it as processed, nothing ever
\* scans it, and its coins are not found (wallet.go:44-46).
Complete(w) == \A h \in (Birth..w.last) \ {1} : Found(w.keys, h) \subseteq w.utxos

ScansFromScratch == \A l \in Names : Complete(wallets[l])

\* No wallet holds a coin its keys do not match.
Own(w) == \A c \in w.utxos : c \in Found(w.keys, c[2])

OwnCoinsOnly == \A l \in Names : Own(wallets[l])

\* The wallet the next start would load.
Loaded == Load(file)

\* "deletes the stored wallet DB used when new keys are added" (daemon.go:109):
\* between requests, a restart continues with the keys the server answers for, as
\* no loop has put the wallet of other keys in place of the file that was removed.
\* (A file that is being written, or that two loops wrote at once, may not parse.)
RestartKeepsKeys ==
  /\ Handling = {}
  /\ \A r \in Reqs : put[r] # "failed"
  /\ current # None
  => text # "whole" \/ Loaded.keys = wallets[current].keys

\* There is no second daemon, or it has the keys in use.
SecondAgrees ==
  loops[Second].pc # "none" /\ current # None
    => wallets[Second].keys = wallets[current].keys

\* The second daemon is the only one to do so: whatever the old and the new loop of the
\* first one still write, a restart keeps the keys in use while the second agrees.
OnlySecondReplacesKeys == SecondAgrees => RestartKeepsKeys

\* What a restart would load is complete for its height and holds own coins only.
RestartIsSound == Complete(Loaded) /\ Own(Loaded)

\* The address a request is answered with belongs to the keys it brought.
AnswersOwnAddress == \A r \in Reqs : address[r] \in {None, r}

\* The announcement of another request was received although that request failed.
ReceivedForNothing(r) == \E q \in Reqs \ {r} : put[q] = "failed" /\ announce[q] = "done"

\* main receives from KeysReadyChan once (main.go:92).  The goroutine that announces keys
\* finds it waiting, unless an earlier request failed after its own goroutine had been
\* started (routes.go:119): main has received that one, and there is still no wallet.
AnnouncementMet ==
  \A r \in Reqs : announce[r] = "send" => main = "waiting" \/ ReceivedForNothing(r)

-----------------------------------------------------------------------------
(* Fairness: the server's loops and their watchers run, a loop's tickers fire, a *)
(* handler that has begun goes on, and an oracle asked again and again answers  *)
(* once.                                                                        *)

Fairness ==
  /\ \A l \in Keys : /\ WF_vars(Watch(l))
                     /\ WF_vars(Scan(l))
                     /\ SF_vars(Tick(l))
                     /\ SF_vars(SyncBlock(l, TRUE))
                     /\ SF_vars(MatchOutputs(l, TRUE))
  /\ \A r \in Reqs : WF_vars(put[r] # "new" /\ Put(r))

FairSpec == Spec /\ Fairness

\* The request, or the process, failed half-way.
PutFailed == main = "down" \/ \E r \in Reqs : put[r] = "failed"

\* Otherwise the loops of replaced keys end and the one of the last keys goes on: in
\* the end the server's daemon has one loop, that of the wallet it has, if it has one.
OneLoopRemains ==
  <>[](PutFailed \/ Running \ {Second} = {current} \ {None})

\* Unless a handler fails half-way, every coin of the keys in use is found, block 1
\* always excepted.
EveryCoinFound ==
  <>[](\/ PutFailed
       \/ current = None
       \/ \A h \in Height \ {1} :
            Found(wallets[current].keys, h) \subseteq wallets[current].utxos)
=============================================================================
