-------------------------- MODULE CommandLine_proofs --------------------------
(***************************************************************************)
(* Proofs about the programs that run once: the commands of src/main.py,    *)
(* for any settings and market, with the loaders of Settings; and the       *)
(* GitHub digest, for any number of runs, days, pages and attempts and any  *)
(* backoff that does not shrink.                                            *)
(***************************************************************************)
EXTENDS Commands, Digest, TLAPS

(* What the process gets for a name: its own value before any file's. *)
LEMMA EnvironIsFunction ==
  ASSUME NEW s, NEW n \in Names
  PROVE  Environ(s)[n] = IF s.proc[n] # Unset THEN s.proc[n]
                         ELSE IF s.envFile = NoFile THEN s.cwd[n] ELSE s.envFile[n]
BY DEF Environ

LEMMA NamesHere ==
  /\ Numeric \cup Boolean \cup TokenNames \cup ChatNames \subseteq Names
  /\ {"ALERT_COOLDOWN_SEC", "MIN_PRICE", "TOP_N_REPORT", "ENABLE_ALERTS"} \subseteq Numeric \cup Boolean
  /\ "TELEGRAM__TOKEN" \in TokenNames /\ "TELEGRAM__CHAT_ID" \in ChatNames
BY DEF Names, Numeric, Boolean, TokenNames, ChatNames

(* A flat variable that is set and did not make AppSettings raise has a value. *)
LEMMA FlatHasValue ==
  ASSUME NEW s, ~ConfigRaises(s), NEW n \in Numeric \cup Boolean, Environ(s)[n] # Unset
  PROVE  Environ(s)[n] \notin {Empty, Junk}
BY DEF ConfigRaises, BaseRaises, Base

(* A nested name that is used nowhere is not in the environment either. *)
LEMMA NotNested ==
  ASSUME NEW s, NEW n, Base(s, n) = Unset
  PROVE  Environ(s)[n] = Unset /\ \A d : BaseOr(s, n, d) = d
BY DEF Base, BaseOr

(* The two aliases of a number, in either order, when the nested one is not used. *)
LEMMA FlatAlone ==
  ASSUME NEW s, ~ConfigRaises(s), NEW flat \in Numeric, NEW nested, NEW d,
         Base(s, nested) = Unset, Environ(s)[flat] # 0
  PROVE  /\ Aliased(s, flat, nested, d) = Readable(Environ(s)[flat], d)
         /\ Aliased(s, nested, flat, d) = Readable(Environ(s)[flat], d)
<1> DEFINE e == Environ(s)[flat]
<1>1. e # Unset => e \notin {Empty, Junk}
  BY FlatHasValue
<1>2. Environ(s)[nested] = Unset
  BY NotNested
<1>3. OrElse(e, OrElse(Environ(s)[nested], d)) = Readable(e, d)
  BY <1>1, <1>2 DEF OrElse, Readable
<1>4. OrElse(Environ(s)[nested], OrElse(e, d)) = Readable(e, d)
  BY <1>1, <1>2 DEF OrElse, Readable
<1>5. Readable(e, d) = 0 => Readable(e, d) = d
  BY DEF Readable
<1> HIDE DEF e
<1>6. Aliased(s, flat, nested, d) = Readable(e, d)
  BY <1>3, <1>5 DEF Aliased, e
<1>7. Aliased(s, nested, flat, d) = Readable(e, d)
  BY <1>4, <1>5 DEF Aliased, e
<1> QED
  BY <1>6, <1>7 DEF e

LEMMA CooldownsAgree ==
  ASSUME NEW s, ~ConfigRaises(s), Base(s, "ALERTS__COOLDOWN_SEC") = Unset,
         Environ(s)["ALERT_COOLDOWN_SEC"] # 0
  PROVE  ConfigCooldown(s) = Cli(s).cooldown
<1>1. ConfigCooldown(s) = Aliased(s, "ALERT_COOLDOWN_SEC", "ALERTS__COOLDOWN_SEC", 300)
  BY NotNested DEF ConfigCooldown, ConfigDefaults
<1>2. Cli(s).cooldown = Readable(Environ(s)["ALERT_COOLDOWN_SEC"], 300)
  BY DEF Cli, CliDefaults
<1> QED
  BY <1>1, <1>2, FlatAlone DEF Numeric

LEMMA MinPricesAgree ==
  ASSUME NEW s, ~ConfigRaises(s), Base(s, "LIQUIDITY__MIN_PRICE") = Unset,
         Environ(s)["MIN_PRICE"] # 0
  PROVE  ConfigPrice(s) = Cli(s).price
<1>1. ConfigPrice(s) = Aliased(s, "LIQUIDITY__MIN_PRICE", "MIN_PRICE", 1)
  BY NotNested DEF ConfigPrice, ConfigDefaults
<1>2. Cli(s).price = Readable(Environ(s)["MIN_PRICE"], 1)
  BY DEF Cli, CliDefaults
<1> QED
  BY <1>1, <1>2, FlatAlone DEF Numeric

(* Here the defaults differ, so the name has to be given. *)
LEMMA TopsAgree ==
  ASSUME NEW s, ~ConfigRaises(s), Base(s, "RUNTIME__TOP_N_REPORT") = Unset,
         Environ(s)["TOP_N_REPORT"] \notin {Unset, 0}
  PROVE  ConfigTop(s) = Cli(s).top
<1> DEFINE e == Environ(s)["TOP_N_REPORT"]
<1>1. e \notin {Unset, Empty, Junk, 0}
  BY NamesHere, FlatHasValue
<1>2. ConfigTop(s) = Aliased(s, "RUNTIME__TOP_N_REPORT", "TOP_N_REPORT", 10)
  BY NotNested DEF ConfigTop, ConfigDefaults
<1>3. ConfigTop(s) = Readable(e, 10)
  BY <1>1, <1>2, FlatAlone DEF Numeric
<1>4. Cli(s).top = Readable(e, 3)
  BY DEF Cli, CliDefaults
<1> QED
  BY <1>1, <1>3, <1>4 DEF Readable

LEMMA PathsAgree ==
  ASSUME NEW s, Base(s, "RUNTIME__DB_PATH") = Unset, Environ(s)["DB_PATH"] # Empty
  PROVE  ConfigDb(s) = Cli(s).db
<1>1. ConfigDb(s) = OrElse(Unset, OrElse(Environ(s)["DB_PATH"], SignalsDb))
  BY NotNested DEF ConfigDb, ConfigDefaults
<1> QED
  BY <1>1 DEF OrElse, Cli, CliDefaults

(* The flat topics go through both loaders, whatever their defaults. *)
LEMMA TopicsAgree ==
  ASSUME NEW s, Environ(s)["WS_SUB_TOPICS_SPOT"] \notin {Unset, Empty}
  PROVE  ConfigTopics(s) = Cli(s).topics
BY DEF ConfigTopics, Base, OrElse, Cli

LEMMA SameTruth ==
  ASSUME NEW e, NEW S, NEW T, e \in S <=> e \in T
  PROVE  (e \in S) = (e \in T)
OBVIOUS

LEMMA SwitchesAgree ==
  ASSUME NEW s, ~ConfigRaises(s), Base(s, "RUNTIME__ENABLE_ALERTS") = Unset,
         Environ(s)["ENABLE_ALERTS"] # Yes
  PROVE  ConfigEnabled(s) = Cli(s).enabled
<1> DEFINE e == Environ(s)["ENABLE_ALERTS"]
<1>1. e # Unset => e \notin {Empty, Junk}
  BY NamesHere, FlatHasValue
<1>2. Environ(s)["RUNTIME__ENABLE_ALERTS"] = Unset
  BY NotNested
<1>3. BaseOr(s, "RUNTIME__ENABLE_ALERTS", ConfigDefaults.enabled) = TRUE
  BY NotNested DEF ConfigDefaults
<1>4. ConfigEnabled(s) = ((IF e = Unset THEN TRUE ELSE e) \in {TRUE, Yes})
  BY <1>1, <1>2, <1>3 DEF ConfigEnabled, OrElse
<1>5. Cli(s).enabled = (e \in {Unset, TRUE})
  BY DEF Cli
<1>6. CASE e = Unset
  BY <1>4, <1>5, <1>6
<1>7. CASE e # Unset
  <2>1. (e \in {TRUE, Yes}) <=> e = TRUE
    BY Zenon
  <2>2. (e \in {Unset, TRUE}) <=> e = TRUE
    BY <1>7
  <2>3. ConfigEnabled(s) = (e \in {TRUE, Yes})
    BY <1>4, <1>7, Zenon
  <2>4. (e \in {TRUE, Yes}) = (e \in {Unset, TRUE})
    BY <2>1, <2>2, SameTruth
  <2> QED
    BY <1>5, <2>3, <2>4, Zenon
<1> QED
  BY <1>6, <1>7

(* Without ENV_FILE pydantic reads nothing that the environment has not got. *)
LEMMA NoOtherFile ==
  ASSUME NEW s, s.envFile = NoFile, NEW n \in Names, Environ(s)[n] \in {Unset, Empty}
  PROVE  BaseOr(s, n, Empty) = Empty
<1>1. Environ(s)[n] = Unset => s.cwd[n] = Unset
  BY EnvironIsFunction
<1> QED
  BY <1>1 DEF BaseOr, Base

LEMMA TokensAgree ==
  ASSUME NEW s, s.envFile = NoFile,
         \A n \in TokenNames \ {"TELEGRAM__TOKEN"} : Environ(s)[n] \in {Unset, Empty}
  PROVE  ConfigToken(s) = Cli(s).token
<1> DEFINE e == Environ(s)["TELEGRAM__TOKEN"]
<1>1. /\ Environ(s)["TELEGRAM_TOKEN"] \in {Unset, Empty}
      /\ Environ(s)["TELEGRAM_BOT_TOKEN"] \in {Unset, Empty}
      /\ Environ(s)["TELEGRAM__BOT_TOKEN"] \in {Unset, Empty}
  BY DEF TokenNames
<1>2. Cli(s).token = OrElse(e, Empty)
  BY <1>1 DEF Cli, OrElse
<1>3. ConfigToken(s) = OrElse(e, BaseOr(s, "TELEGRAM__TOKEN", Empty))
  BY <1>1 DEF ConfigToken, OrElse
<1>4. e \in {Unset, Empty} => BaseOr(s, "TELEGRAM__TOKEN", Empty) = Empty
  BY NamesHere, NoOtherFile
<1> QED
  BY <1>2, <1>3, <1>4 DEF OrElse

LEMMA ChatsAgree ==
  ASSUME NEW s, s.envFile = NoFile,
         \A n \in ChatNames \ {"TELEGRAM__CHAT_ID"} : Environ(s)[n] \in {Unset, Empty}
  PROVE  ConfigChat(s) = Cli(s).chat
<1> DEFINE e == Environ(s)["TELEGRAM__CHAT_ID"]
<1>1. /\ Environ(s)["TG_CHAT_ID"] \in {Unset, Empty}
      /\ Environ(s)["TELEGRAM_CHAT_ID"] \in {Unset, Empty}
      /\ Environ(s)["TELEGRAM_ALERT_CHAT_ID"] \in {Unset, Empty}
      /\ Environ(s)["TELEGRAM__ALERT_CHAT_ID"] \in {Unset, Empty}
  BY DEF ChatNames
<1>2. Cli(s).chat = OrElse(e, Empty)
  BY <1>1 DEF Cli, OrElse
<1>3. ConfigChat(s) = OrElse(e, BaseOr(s, "TELEGRAM__CHAT_ID", Empty))
  BY <1>1 DEF ConfigChat, OrElse
<1>4. e \in {Unset, Empty} => BaseOr(s, "TELEGRAM__CHAT_ID", Empty) = Empty
  BY NamesHere, NoOtherFile
<1> QED
  BY <1>2, <1>3, <1>4 DEF OrElse

(* The flat setting of the process, wherever the files point. *)
LEMMA ProcessWins ==
  ASSUME NEW s, ~ConfigRaises(s), s.proc["ALERT_COOLDOWN_SEC"] \notin {Unset, 0}
  PROVE  ConfigCooldown(s) = s.proc["ALERT_COOLDOWN_SEC"]
<1>1. Environ(s)["ALERT_COOLDOWN_SEC"] = s.proc["ALERT_COOLDOWN_SEC"]
  BY NamesHere, EnvironIsFunction
<1>2. Environ(s)["ALERT_COOLDOWN_SEC"] \notin {Empty, Junk, Unset, 0}
  BY <1>1, NamesHere, FlatHasValue
<1> QED
  BY <1>1, <1>2 DEF ConfigCooldown, Aliased, OrElse

(* In every environment the two loaders give the same settings, except in the   *)
(* cases LoadersAgree lists: nested names, zeros and an empty path, the switch   *)
(* "y", other names of token and chat, ENV_FILE, and a report length or topics   *)
(* that are not given, whose defaults differ (config.py's load_settings and      *)
(* main.py's).                                                                   *)
THEOREM LoadersAlwaysAgree == Spec => []LoadersAgree
<1>1. LoadersAgree
  <2> DEFINE env == Environ(src)
             given(ns) == \E n \in ns : env[n] \notin {Unset, Empty}
  <2>1. SUFFICES ASSUME ~ConfigRaises(src) PROVE LoadersAgree
    BY DEF LoadersAgree
  <2>2. Config(src).cooldown = Cli(src).cooldown \/ Base(src, "ALERTS__COOLDOWN_SEC") # Unset
          \/ env["ALERT_COOLDOWN_SEC"] = 0
    BY <2>1, CooldownsAgree DEF Config
  <2>3. Config(src).price = Cli(src).price \/ Base(src, "LIQUIDITY__MIN_PRICE") # Unset
          \/ env["MIN_PRICE"] = 0
    BY <2>1, MinPricesAgree DEF Config
  <2>4. Config(src).top = Cli(src).top \/ Base(src, "RUNTIME__TOP_N_REPORT") # Unset
          \/ env["TOP_N_REPORT"] \in {Unset, 0}
    BY <2>1, TopsAgree DEF Config
  <2>5. Config(src).db = Cli(src).db \/ Base(src, "RUNTIME__DB_PATH") # Unset
          \/ env["DB_PATH"] = Empty
    BY PathsAgree DEF Config
  <2>6. Config(src).enabled = Cli(src).enabled \/ Base(src, "RUNTIME__ENABLE_ALERTS") # Unset
          \/ env["ENABLE_ALERTS"] = Yes
    BY <2>1, SwitchesAgree DEF Config
  <2>7. Config(src).topics = Cli(src).topics \/ ~given({"WS_SUB_TOPICS_SPOT"})
    BY TopicsAgree DEF Config
  <2>8. Config(src).token = Cli(src).token \/ given(TokenNames \ {"TELEGRAM__TOKEN"})
          \/ src.envFile # NoFile
    BY TokensAgree DEF Config
  <2>9. Config(src).chat = Cli(src).chat \/ given(ChatNames \ {"TELEGRAM__CHAT_ID"})
          \/ src.envFile # NoFile
    BY ChatsAgree DEF Config
  <2>10. src.proc["ALERT_COOLDOWN_SEC"] \notin {Unset, 0}
          => Config(src).cooldown = src.proc["ALERT_COOLDOWN_SEC"]
    BY <2>1, ProcessWins DEF Config
  <2> QED
    BY <2>2, <2>3, <2>4, <2>5, <2>6, <2>7, <2>8, <2>9, <2>10, Zenon DEF LoadersAgree
<1> QED
  BY <1>1, PTL

-----------------------------------------------------------------------------
(* Before its end a command has no status and no message in the chat; past the  *)
(* gate it is one that sends, with the switch on and a token.                   *)
GateInv ==
    /\ pc # "done" => status = Unset /\ ~inChat
    /\ pc \in {"reading", "sending"} =>
         cmd.name \in Senders /\ Cli(src).enabled /\ HasTelegram

(* The rows passed the filters of the command that shows or saves them.         *)
RowsInv ==
    /\ \A s \in Symbols : market[s] # Unset => market[s] \in Quotes
    /\ cmd.name = "basis:alert" => rows \subseteq Passing(market)
    /\ cmd.name = "select:save" => rows \subseteq Selectable(market)

IInv == GateInv /\ CommandsHonest /\ RowsInv

LEMMA StatusIsNumber == Unset \notin {0, 1, 2} /\ Junk \notin {0, 1, 2}
<1>1. 0..2 = {0, 1, 2}
  OBVIOUS
<1> QED
  BY <1>1, CommandsAssumption

LEMMA InvInit == Init => IInv
<1> SUFFICES ASSUME Init PROVE IInv
  OBVIOUS
<1>1. rows = {} /\ status = Unset /\ inChat = FALSE /\ pc = "start"
  BY DEF Init
<1>2. PICK i \in Inputs : market = i.market
  BY DEF Init
<1>3. GateInv /\ CommandsHonest
  BY <1>1, StatusIsNumber DEF GateInv, CommandsHonest
<1>4. RowsInv
  BY <1>1, <1>2, CommandsAssumption DEF RowsInv
<1> QED
  BY <1>3, <1>4 DEF IInv

LEMMA TopSubset ==
  ASSUME NEW m, NEW set, NEW n, NEW S \in Top(m, set, n)
  PROVE  S \subseteq set
BY DEF Top

LEMMA InvNext == IInv /\ [Next]_vars => IInv'
<1> SUFFICES ASSUME IInv, [Next]_vars
             PROVE  IInv'
  OBVIOUS
<1> USE DEF IInv, input
<1>1. CASE UNCHANGED vars
  <2>1. UNCHANGED <<Cli(src), Passing(market), Selectable(market), cmd, market, pc, rows, status, inChat>>
    BY <1>1 DEF vars
  <2> QED
    BY <2>1 DEF GateInv, CommandsHonest, RowsInv, HasTelegram
<1>2. CASE UNCHANGED input /\ Next
  <2>1. UNCHANGED <<Cli(src), Passing(market), Selectable(market), cmd, market>>
    BY <1>2
  <2>2. GateInv' /\ CommandsHonest'
    <3>1. CASE Start
      BY <2>1, <3>1, StatusIsNumber DEF Start, Exit, GateInv, CommandsHonest, HasTelegram
    <3>2. CASE Healthcheck
      BY <2>1, <3>2, StatusIsNumber DEF Healthcheck, Exit, GateInv, CommandsHonest, HasTelegram
    <3>3. CASE Gate
      BY <2>1, <3>3, StatusIsNumber DEF Gate, Exit, GateInv, CommandsHonest, HasTelegram
    <3>4. CASE Read
      BY <2>1, <3>4, StatusIsNumber DEF Read, Exit, GateInv, CommandsHonest, HasTelegram
    <3>5. CASE Send
      BY <2>1, <3>5, StatusIsNumber DEF Send, Exit, GateInv, CommandsHonest, HasTelegram, Senders
    <3>6. CASE Select
      BY <2>1, <3>6, StatusIsNumber DEF Select, Exit, GateInv, CommandsHonest, HasTelegram
    <3> QED
      BY <1>2, <3>1, <3>2, <3>3, <3>4, <3>5, <3>6 DEF Next
  <2>3. RowsInv'
    <3>1. CASE Read
      <4>1. UNCHANGED rows \/ (cmd.name = "basis:alert" /\ rows' \subseteq Passing(market))
        <5>1. CASE rows' \in Top(market, Passing(market), cmd.limit)
          <6>1. rows' \subseteq Passing(market)
            BY <5>1, TopSubset
          <6>2. cmd.name = "basis:alert" \/ UNCHANGED rows
            BY <3>1 DEF Read
          <6> QED
            BY <6>1, <6>2
        <5>2. UNCHANGED rows \/ rows' \in Top(market, Passing(market), cmd.limit)
          BY <3>1, Zenon DEF Read
        <5> QED
          BY <5>1, <5>2
      <4> QED
        BY <2>1, <4>1 DEF RowsInv
    <3>2. CASE Select
      <4>1. UNCHANGED rows \/ (cmd.name = "select:save" /\ rows' \subseteq Selectable(market))
        <5> DEFINE n == IF cmd.limit > 1 THEN cmd.limit ELSE 1
        <5>1. CASE rows' \in Top(market, Selectable(market), n)
          <6>1. rows' \subseteq Selectable(market)
            BY <5>1, TopSubset
          <6>2. cmd.name = "select:save"
            BY <3>2 DEF Select
          <6> QED
            BY <6>1, <6>2
        <5>2. UNCHANGED rows \/ rows' \in Top(market, Selectable(market), n)
          BY <3>2, Zenon DEF Select
        <5> QED
          BY <5>1, <5>2
      <4> QED
        BY <2>1, <4>1 DEF RowsInv
    <3>3. CASE UNCHANGED rows
      BY <2>1, <3>3 DEF RowsInv
    <3> QED
      BY <1>2, <3>1, <3>2, <3>3 DEF Next, Start, Healthcheck, Gate, Send
  <2> QED
    BY <2>2, <2>3
<1> QED
  BY <1>1, <1>2 DEF Next, Start, Healthcheck, Gate, Read, Send, Select

LEMMA Invariance == Spec => []IInv
BY InvInit, InvNext, PTL DEF Spec

(* With the alerts off or without a token no command sends; a status of 1 means *)
(* that nothing was sent, and 0 of a command that only sends that it was        *)
(* (cmd_tg_send, cmd_report_send, cmd_basis_alert).                             *)
THEOREM CommandsAreHonest == Spec => []CommandsHonest
<1>1. IInv => CommandsHonest
  BY DEF IInv
<1> QED
  BY <1>1, Invariance, PTL

(* The three scanners, on any market.                                           *)
LEMMA ScannersCompare ==
  ASSUME RowsInv
  PROVE  /\ \A s \in Passing(market) :
              \/ market[s].spot < MinPrice \/ ~Allowed(s)
              \/ s \in CacheCandidates(market) /\ (s \in Selectable(market) \/ ~market[s].deep)
         /\ \A s \in Selectable(market) :
              s \in CacheCandidates(market) \/ market[s].linVol < MinVol
<1>1. \A s \in Listed(market) :
        /\ market[s].spot \in Int /\ market[s].fut \in Int
        /\ market[s].spotVol \in Int /\ market[s].linVol \in Int
  BY DEF RowsInv, Listed, Quotes
<1>2. MinVol \in Nat /\ MinVol > 0 /\ MinPrice \in Nat
  BY CommandsAssumption
<1>3. \A s \in Listed(market) :
        /\ ~(BothVols(market[s]) < MinVol) <=> BothVols(market[s]) >= MinVol
        /\ BothVols(market[s]) >= MinVol
            => market[s].spotVol > 0 /\ market[s].spotVol >= MinVol
        /\ market[s].spotVol >= MinVol /\ ~(market[s].linVol < MinVol)
            => BothVols(market[s]) >= MinVol
        /\ ~(market[s].spot < MinPrice) <=> market[s].spot >= MinPrice
  BY <1>1, <1>2 DEF BothVols
<1>4. ASSUME NEW s \in Passing(market), ~(market[s].spot < MinPrice), Allowed(s)
      PROVE  s \in CacheCandidates(market) /\ (s \in Selectable(market) \/ ~market[s].deep)
  <2>1. s \in Listed(market) /\ market[s].spot > 0 /\ market[s].fut > 0
        /\ BothVols(market[s]) >= MinVol /\ Wide(market, s)
    BY DEF Passing
  <2>2. market[s].spot >= MinPrice /\ ~(BothVols(market[s]) < MinVol)
        /\ market[s].spotVol > 0 /\ market[s].spotVol >= MinVol
    BY <1>3, <1>4, <2>1
  <2> QED
    BY <1>4, <2>1, <2>2, Zenon DEF CacheCandidates, Selectable
<1>5. \A s \in Selectable(market) :
        s \in CacheCandidates(market) \/ market[s].linVol < MinVol
  BY <1>3 DEF CacheCandidates, Selectable
<1> QED
  BY <1>4, <1>5

(* basis:alert shows nothing that the selector or the cache would leave out,    *)
(* except for the minimal price, the lists and thin order books, which it does   *)
(* not look at; the selector saves more than the cache proposes only where the   *)
(* futures' turnover is too small (main.py:344-400, selector.py:172-216,         *)
(* cache.py:132-171).                                                            *)
THEOREM ScannersAlwaysAgree == Spec => []ScannersAgree
<1>1. IInv => ScannersAgree
  BY ScannersCompare DEF IInv, RowsInv, ScannersAgree
<1> QED
  BY <1>1, Invariance, PTL

-----------------------------------------------------------------------------
(* The digest.                                                              *)

(* Every completed day has its stamp, a run has seen only completed days, and    *)
(* one that sends or has sent found no stamp of its day, unless it was forced.   *)
StampInv ==
    /\ DOMAIN proc = Procs
    /\ completed \subseteq stamps
    /\ \A p \in Procs :
         proc[p].pc \in {"idle", "checking"} => p \notin chat
    /\ \A p \in Procs :
         proc[p].pc \in {"sending", "marking"} \/ p \in chat
         => proc[p].force \/ proc[p].day \notin proc[p].seen
    /\ chat \subseteq Procs

LEMMA StampInit == DigestInit => StampInv
BY DEF DigestInit, StampInv, Idle

(* Nothing of the listing touches the stamps. *)
LEMMA ListingStep ==
  ASSUME StampInv, UNCHANGED stampVars
  PROVE  StampInv'
BY DEF StampInv, stampVars

LEMMA RunStep ==
  ASSUME StampInv, NEW p \in Procs,
         StartRun(p) \/ CheckStamp(p) \/ SendDigest(p) \/ Mark(p) \/ Crash(p)
  PROVE  StampInv'
<1>1. CASE StartRun(p)
  <2>1. /\ UNCHANGED <<stamps, completed, chat>> /\ proc[p].pc = "idle"
        /\ DOMAIN proc' = Procs
        /\ \A q \in Procs : q # p => proc'[q] = proc[q]
        /\ proc'[p].pc \in {"raised", "checking", "done"}
    <3>1. PICK day \in Days, send, force, mock \in BOOLEAN :
            proc' = [proc EXCEPT ![p] =
              [Idle EXCEPT !.pc = IF ~mock THEN "raised" ELSE IF send THEN "checking" ELSE "done",
                           !.day = day, !.send = send, !.force = force]]
      BY <1>1 DEF StartRun
    <3> QED
      BY <1>1, <3>1 DEF StartRun, Idle, StampInv
  <2> QED
    BY <2>1 DEF StampInv
<1>2. CASE CheckStamp(p)
  <2>1. /\ UNCHANGED <<stamps, completed, chat>> /\ proc[p].pc = "checking"
        /\ DOMAIN proc' = Procs
        /\ \A q \in Procs : q # p => proc'[q] = proc[q]
        /\ proc'[p].day = proc[p].day /\ proc'[p].force = proc[p].force
        /\ proc'[p].seen = completed
        /\ proc'[p].pc = IF proc[p].force \/ proc[p].day \notin stamps
                         THEN "sending" ELSE "skipped"
    BY <1>2 DEF CheckStamp, StampInv
  <2> QED
    BY <2>1 DEF StampInv
<1>3. CASE SendDigest(p)
  <2>1. /\ UNCHANGED <<stamps, completed>> /\ proc[p].pc = "sending"
        /\ chat' \in {chat, chat \cup {p}}
        /\ DOMAIN proc' = Procs
        /\ \A q \in Procs : q # p => proc'[q] = proc[q]
        /\ proc'[p].day = proc[p].day /\ proc'[p].force = proc[p].force
        /\ proc'[p].seen = proc[p].seen
        /\ proc'[p].pc \in {"marking", "error"}
    BY <1>3, SMTT(30) DEF SendDigest, StampInv
  <2> QED
    BY <2>1 DEF StampInv
<1>4. CASE Mark(p)
  <2>1. /\ completed' \subseteq stamps' /\ UNCHANGED chat /\ proc[p].pc = "marking"
        /\ DOMAIN proc' = Procs
        /\ \A q \in Procs : q # p => proc'[q] = proc[q]
        /\ proc'[p].day = proc[p].day /\ proc'[p].force = proc[p].force
        /\ proc'[p].seen = proc[p].seen
        /\ proc'[p].pc \in {"done", "error"}
    <3>1. CASE proc' = [proc EXCEPT ![p].pc = "done"]
      BY <1>4, <3>1 DEF Mark, StampInv
    <3>2. CASE proc' = [proc EXCEPT ![p].pc = "error"]
      BY <1>4, <3>2 DEF Mark, StampInv
    <3> QED
      BY <1>4, <3>1, <3>2 DEF Mark
  <2> QED
    BY <2>1 DEF StampInv
<1>5. CASE Crash(p)
  <2>1. /\ UNCHANGED <<stamps, completed, chat>>
        /\ DOMAIN proc' = Procs
        /\ \A q \in Procs : q # p => proc'[q] = proc[q]
        /\ proc'[p].day = proc[p].day /\ proc'[p].force = proc[p].force
        /\ proc'[p].seen = proc[p].seen
        /\ proc'[p].pc = "dead"
    BY <1>5 DEF Crash, StampInv
  <2> QED
    BY <2>1 DEF StampInv
<1> QED
  BY <1>1, <1>2, <1>3, <1>4, <1>5

LEMMA StampNext == StampInv /\ [DigestNext]_digestVars => StampInv'
<1> SUFFICES ASSUME StampInv, [DigestNext]_digestVars
             PROVE  StampInv'
  OBVIOUS
<1>1. ASSUME NEW p \in Procs,
             StartRun(p) \/ CheckStamp(p) \/ SendDigest(p) \/ Mark(p) \/ Crash(p)
      PROVE  StampInv'
  BY <1>1, RunStep
<1>2. CASE Midnight
  BY <1>2 DEF Midnight, StampInv
<1>3. CASE NextPage \/ TransportError \/ Retryable \/ RateLimited \/ Refused
  BY <1>3, ListingStep
     DEF NextPage, TransportError, Retryable, RateLimited, Refused, Asking
<1>4. CASE UNCHANGED digestVars
  BY <1>4, ListingStep DEF digestVars
<1> QED
  BY <1>1, <1>2, <1>3, <1>4 DEF DigestNext

-----------------------------------------------------------------------------
(* Once a run has written the stamp of a day, no run that checks after it sends *)
(* that day's digest, unless it is forced to: over midnight, over crashes, and  *)
(* whatever became of the answers (gh_daily_digest.py's _should_send_today and  *)
(* _mark_sent_today).                                                           *)
THEOREM OneDigestADay == DigestSpec => []SentOncePerDay
<1>1. StampInv => SentOncePerDay
  BY DEF StampInv, SentOncePerDay
<1> QED
  BY <1>1, StampInit, StampNext, PTL DEF DigestSpec

-----------------------------------------------------------------------------
(* While a listing asks for a page it has exactly the pages before it, with      *)
(* attempts left; and the last sleep was one that the listing allows.            *)
Reqs == [pc : {"asking", "raised", "listed", "short"}, page : 1..(MaxPages + 1),
         attempt : 1..MaxRetries, sleep : Int, asked : Int, got : SUBSET Nat]
Has(r) ==
    /\ r.pc = "asking" => r.page <= MaxPages /\ r.got = 1..(r.page - 1)
    /\ r.pc = "listed" => r.got = 1..MaxPages
    /\ r.pc = "short" => r.got \in {1..(r.page - 1), 1..r.page}
Patient(r) == r.sleep > MaxSleep /\ r.sleep > Backoff(MaxRetries) => r.asked = r.sleep

ReqInv == req \in Reqs /\ Has(req) /\ Patient(req)

LEMMA ReqInit == DigestInit => ReqInv
<1> SUFFICES ASSUME DigestInit PROVE ReqInv
  OBVIOUS
<1>1. req = [pc |-> "asking", page |-> 1, attempt |-> 1, sleep |-> 0, asked |-> 0, got |-> {}]
  BY DEF DigestInit
<1>2. 1..(1 - 1) = {}
  OBVIOUS
<1> QED
  BY <1>1, <1>2, DigestAssumption DEF ReqInv, Reqs, Has, Patient

(* A retry keeps the page and counts the attempt. *)
LEMMA RetryStep ==
  ASSUME ReqInv, req.pc = "asking", HasAttempts, NEW s \in Int, NEW a \in Int, Retry(s, a),
         s <= MaxSleep \/ s <= Backoff(MaxRetries) \/ a = s
  PROVE  ReqInv'
<1>1. Backoff(MaxRetries) \in Nat /\ MaxSleep \in Nat
  BY DigestAssumption, BackoffAssumption
<1>2. /\ req' \in Reqs
      /\ req'.pc = "asking" /\ req'.page = req.page /\ req'.got = req.got
      /\ req'.sleep = s /\ req'.asked = a
  <2>1. req.attempt + 1 \in 1..MaxRetries
    BY DigestAssumption DEF ReqInv, Reqs, HasAttempts
  <2>2. req' = [req EXCEPT !.pc = "asking", !.attempt = req.attempt + 1, !.sleep = s, !.asked = a]
    BY DEF Retry
  <2>3. req \in Reqs
    BY DEF ReqInv
  <2> HIDE DEF Retry, HasAttempts
  <2> QED
    BY <2>1, <2>2, <2>3 DEF Reqs
<1>3. Has(req')
  BY <1>2 DEF ReqInv, Has
<1>4. Patient(req')
  BY <1>1, <1>2 DEF Patient
<1> QED
  BY <1>2, <1>3, <1>4 DEF ReqInv

LEMMA RaiseStep ==
  ASSUME ReqInv, Raise
  PROVE  ReqInv'
<1>1. /\ req' \in Reqs /\ req'.pc = "raised"
      /\ req'.sleep = req.sleep /\ req'.asked = req.asked
  BY DEF ReqInv, Reqs, Raise
<1> QED
  BY <1>1 DEF ReqInv, Has, Patient

LEMMA NextPageStep ==
  ASSUME ReqInv, NextPage
  PROVE  ReqInv'
<1>1. /\ req \in Reqs /\ req.pc = "asking" /\ req.page \in 1..MaxPages
      /\ req.got = 1..(req.page - 1)
  BY DEF ReqInv, NextPage, Asking, Has, Reqs
<1>2. req.got \cup {req.page} = 1..req.page /\ MaxPages \in Nat /\ 1 \in 1..MaxRetries
  BY <1>1, DigestAssumption
<1> DEFINE upto == req.got \cup {req.page}
<1>a. upto = 1..req.page /\ upto \in SUBSET Nat
  BY <1>1, <1>2
<1> HIDE DEF upto
<1>3. CASE req' = [req EXCEPT !.got = upto, !.attempt = 1, !.sleep = 0,
                              !.page = @ + 1,
                              !.pc = IF req.page < MaxPages THEN "asking" ELSE "listed"]
  <2>1. /\ req' \in Reqs /\ req'.sleep = 0 /\ req'.page = req.page + 1
        /\ req'.got = 1..req.page
        /\ req'.pc = IF req.page < MaxPages THEN "asking" ELSE "listed"
    <3>1. req.page + 1 \in 1..(MaxPages + 1)
      BY <1>1, <1>2
    <3> DEFINE next == IF req.page < MaxPages THEN "asking" ELSE "listed"
    <3>2. next \in {"asking", "listed"}
      OBVIOUS
    <3>3. req' = [req EXCEPT !.got = upto, !.attempt = 1, !.sleep = 0, !.page = req.page + 1,
                             !.pc = next]
      BY <1>3
    <3> HIDE DEF next
    <3>4. /\ req' \in Reqs /\ req'.sleep = 0 /\ req'.page = req.page + 1
          /\ req'.got = upto /\ req'.pc = next
      <4>1. req \in Reqs /\ upto \in SUBSET Nat /\ 1 \in 1..MaxRetries /\ 0 \in Int
            /\ next \in {"asking", "raised", "listed", "short"}
        BY <1>1, <1>2, <1>a, <3>2
      <4> QED
        BY ONLY <3>1, <3>3, <4>1 DEF Reqs
    <3> QED
      BY <1>a, <3>4 DEF next
  <2>2. Has(req')
    BY <1>1, <1>2, <2>1 DEF Has
  <2>3. Patient(req')
    BY <2>1, DigestAssumption DEF Patient
  <2> QED
    BY <2>1, <2>2, <2>3 DEF ReqInv
<1>4. CASE req' = [req EXCEPT !.got = upto, !.pc = "short"]
  <2>1. /\ req' \in Reqs /\ req'.pc = "short" /\ req'.page = req.page
        /\ req'.got = 1..req.page
        /\ req'.sleep = req.sleep /\ req'.asked = req.asked
    BY <1>1, <1>a, <1>4 DEF Reqs
  <2> QED
    BY <2>1 DEF ReqInv, Has, Patient
<1>5. CASE req' = [req EXCEPT !.pc = "short"]
  <2>1. /\ req' \in Reqs /\ req'.pc = "short" /\ req'.page = req.page
        /\ req'.got = req.got
        /\ req'.sleep = req.sleep /\ req'.asked = req.asked
    BY <1>1, <1>5 DEF Reqs
  <2> QED
    BY <1>1, <2>1 DEF ReqInv, Has, Patient
<1> QED
  BY <1>3, <1>4, <1>5 DEF NextPage, upto

(* The failures: each is retried while attempts are left, and raised then. *)
LEMMA FailureStep ==
  ASSUME ReqInv, TransportError \/ Retryable \/ RateLimited \/ Refused
  PROVE  ReqInv'
<1>1. req.pc = "asking"
  BY DEF TransportError, Retryable, RateLimited, Refused, Asking
<1>2. Backoff(req.attempt) \in Int /\ Backoff(req.attempt) <= Backoff(MaxRetries)
  BY BackoffAssumption DEF ReqInv, Reqs
<1>3. CASE HasAttempts /\ Retry(Backoff(req.attempt), 0)
  BY <1>1, <1>2, <1>3, RetryStep
<1>4. CASE Raise
  BY <1>4, RaiseStep
<1>5. CASE TransportError
  BY <1>3, <1>4, <1>5 DEF TransportError
<1>6. CASE Retryable
  <2>1. ASSUME NEW s \in RetryAfters, HasAttempts, Retry(s, s) PROVE ReqInv'
    BY <1>1, <2>1, DigestAssumption, RetryStep
  <2> QED
    BY <1>3, <1>4, <1>6, <2>1 DEF Retryable
<1>7. CASE RateLimited
  <2> DEFINE delay(r) == IF r < 0 THEN 0 ELSE IF r > MaxSleep THEN MaxSleep ELSE r
  <2>1. ASSUME NEW r \in Resets, HasAttempts, delay(r) # 0, Retry(delay(r), 0) PROVE ReqInv'
    <3>1. delay(r) \in Int /\ delay(r) <= MaxSleep
      BY DigestAssumption
    <3> HIDE DEF delay
    <3> QED
      BY <1>1, <2>1, <3>1, RetryStep
  <2>2. CASE HasAttempts
    <3>1. PICK r \in Resets : Retry(IF delay(r) = 0 THEN Backoff(req.attempt) ELSE delay(r), 0)
      BY <1>7, <2>2 DEF RateLimited
    <3> HIDE DEF delay
    <3> QED
      BY <1>3, <2>1, <2>2, <3>1
  <2> QED
    BY <1>4, <1>7, <2>2 DEF RateLimited
<1>8. CASE Refused
  BY <1>4, <1>8 DEF Refused
<1> QED
  BY <1>5, <1>6, <1>7, <1>8

LEMMA ReqNext == ReqInv /\ [DigestNext]_digestVars => ReqInv'
<1> SUFFICES ASSUME ReqInv, [DigestNext]_digestVars
             PROVE  ReqInv'
  OBVIOUS
<1>1. CASE UNCHANGED req
  BY <1>1 DEF ReqInv
<1>2. CASE NextPage \/ TransportError \/ Retryable \/ RateLimited \/ Refused
  BY <1>2, NextPageStep, FailureStep
<1> QED
  BY <1>1, <1>2 DEF DigestNext, StartRun, CheckStamp, SendDigest, Mark, Crash, Midnight, digestVars

(* A listing that returns lacks no page before its end, however the requests    *)
(* failed and were tried again; no page is asked for more than MaxRetries       *)
(* times; and only a Retry-After makes the client sleep longer than the cap of  *)
(* a reset and the last backoff (GitHubClient._request and list_commits).       *)
THEOREM ListingsAreFaithful == DigestSpec => []ListingFaithful
<1>1. ReqInv => ListingFaithful
  BY DEF ReqInv, Reqs, Has, Patient, ListingFaithful
<1> QED
  BY <1>1, ReqInit, ReqNext, PTL DEF DigestSpec
=============================================================================
