------------------------------- MODULE Commands -------------------------------
(***************************************************************************)
(* The command line (src/main.py): one process, one command.  The settings *)
(* are loaded, the store is initialised, and the command passes its gates, *)
(* reads its data and sends one message.  basis:alert ranks the market by  *)
(* _basis_rows; select:save is the selector's run (SignalStore), reduced   *)
(* to what it selects.                                                     *)
(***************************************************************************)
EXTENDS Settings, FiniteSets

CONSTANTS
    Symbols,
    Inputs,         \* what a behaviour starts from: src (see Environ), cmd, market
    MinVol, Threshold, MinPrice,
    AllowList, DenyList     \* of the symbols; no AllowList admits all

(* What the exchange says of a symbol that both markets list; deep is FALSE if  *)
(* the depth filter is on and one of the two order books lacks the depth.       *)
Quotes == [spot : Int, fut : Int, spotVol : Int, linVol : Int, deep : BOOLEAN]

(* An exit status is no text, and what the markets list are numbers. *)
ASSUME CommandsAssumption ==
    /\ MinVol \in Nat \ {0} /\ Threshold \in Nat /\ MinPrice \in Nat
    /\ {Unset, Junk} \cap 0..2 = {}
    /\ \A i \in Inputs, s \in Symbols : i.market[s] # Unset => i.market[s] \in Quotes

VARIABLES
    src,        \* the environment the process starts in
    cmd,        \* the command: its name, client and --limit
    market,     \* what the client answers: a quote per symbol, Unset for one
                \*   that one of the markets does not list
    pc,
    rows,       \* the symbols of the message or of the selection
    status,     \* the exit status; Unset until then, Junk for a traceback
    inChat      \* history: the message reached the chat

vars == <<src, cmd, market, pc, rows, status, inChat>>
input == <<src, cmd, market>>

Senders == {"tg:send", "report:send", "basis:alert"}
(* "rest" is BybitRest, whose maps have no prices; the tests put a client with   *)
(* priced maps in its place, or one without maps, whose tickers are read instead. *)
Clients == {"rest", "maps", "tickers"}

Init ==
    /\ \E i \in Inputs : src = i.src /\ cmd = i.cmd /\ market = i.market
    /\ pc = "start" /\ rows = {} /\ status = Unset /\ inChat = FALSE

-----------------------------------------------------------------------------
(* The rows of _basis_rows. *)
Listed(m) == {s \in Symbols : m[s] # Unset}
AbsDiff(r) == IF r.fut >= r.spot THEN r.fut - r.spot ELSE r.spot - r.fut
Wide(m, s) == AbsDiff(m[s]) * 100 >= Threshold * m[s].spot
Bigger(m, a, b) == AbsDiff(m[a]) * m[b].spot > AbsDiff(m[b]) * m[a].spot
BothVols(r) == IF r.spotVol <= r.linVol THEN r.spotVol ELSE r.linVol

\* Mutant: only the spot turnover is looked at.
Passing_SpotOnly(m) ==
    {s \in Listed(m) : /\ m[s].spot > 0 /\ m[s].fut > 0
                       /\ m[s].spotVol >= MinVol /\ Wide(m, s)}
Passing(m) ==
    {s \in Listed(m) : /\ m[s].spot > 0 /\ m[s].fut > 0
                       /\ BothVols(m[s]) >= MinVol /\ Wide(m, s)}

(* Sorted by |basis|, in the order of a set where it is equal, and cut off. *)
Top(m, set, n) ==
    {S \in SUBSET set :
        /\ Cardinality(S) = IF n < Cardinality(set) THEN n ELSE Cardinality(set)
        /\ \A a \in S, b \in set \ S : ~Bigger(m, b, a)}

(* What the other two scanners of the bot make of the same market: the selector, *)
(* and QuoteCache.candidates once both streams and the refresh have brought the  *)
(* market in.                                                                    *)
Allowed(s) == s \notin DenyList /\ (AllowList # {} => s \in AllowList)
Selectable(m) ==
    {s \in Listed(m) : /\ m[s].spot > 0 /\ m[s].spotVol > 0
                       /\ m[s].spot >= MinPrice /\ m[s].spotVol >= MinVol
                       /\ m[s].fut > 0 /\ m[s].deep /\ Wide(m, s) /\ Allowed(s)}
CacheCandidates(m) ==
    {s \in Listed(m) : /\ m[s].spot > 0 /\ m[s].fut > 0
                       /\ Allowed(s) /\ m[s].spot >= MinPrice
                       /\ Wide(m, s) /\ ~(BothVols(m[s]) < MinVol)}

-----------------------------------------------------------------------------
Exit(s) == pc' = "done" /\ status' = s

(* main: the store is initialised before any command; its path never depends on *)
(* a setting that fails to load, so only the disk can end the process here.      *)
Start ==
    /\ pc = "start"
    /\ \/ pc' = "gate" /\ UNCHANGED status
       \/ Exit(2)
    /\ UNCHANGED <<input, rows, inChat>>

(* cmd_healthcheck. *)
Healthcheck ==
    /\ pc = "gate" /\ cmd.name = "healthcheck"
    /\ Exit(IF Cli(src).cooldown > 0 THEN 0 ELSE 1)
    /\ UNCHANGED <<input, rows, inChat>>

(* _tg_fields finds both. *)
HasTelegram == Cli(src).token # Empty /\ Cli(src).chat # Empty

\* Mutant: the switch is looked at after the credentials, and only warns.
Gate_Warns ==
    /\ pc = "gate" /\ cmd.name \in Senders
    /\ IF ~HasTelegram THEN Exit(1) ELSE pc' = "reading" /\ UNCHANGED status
    /\ UNCHANGED <<input, rows, inChat>>

(* The gates of cmd_tg_send, cmd_report_send and cmd_basis_alert. *)
Gate ==
    /\ pc = "gate" /\ cmd.name \in Senders
    /\ IF ~Cli(src).enabled THEN Exit(0)
       ELSE IF ~HasTelegram THEN Exit(1)
       ELSE pc' = "reading" /\ UNCHANGED status
    /\ UNCHANGED <<input, rows, inChat>>

(* The text: the argument, the report, or the ranking, where maps without prices *)
(* end in a KeyError as soon as one symbol is on both markets.                   *)
Read ==
    /\ pc = "reading"
    /\ IF cmd.name # "basis:alert" THEN pc' = "sending" /\ UNCHANGED <<rows, status>>
       ELSE IF cmd.client = "rest" /\ Listed(market) # {}
       THEN Exit(Junk) /\ UNCHANGED rows
       ELSE /\ rows' \in Top(market, Passing(market), cmd.limit)
            /\ pc' = "sending" /\ UNCHANGED status
    /\ UNCHANGED <<input, inChat>>

(* One POST.  An answer that is an error, or lost, is 2 for two of the commands; *)
(* basis:alert logs it and returns 0 all the same.                               *)
Send ==
    /\ pc = "sending"
    /\ \E reached, ok \in BOOLEAN :
         /\ ok => reached
         /\ inChat' = reached
         /\ Exit(IF ok \/ cmd.name = "basis:alert" THEN 0 ELSE 2)
    /\ UNCHANGED <<input, rows>>

(* cmd_select_save: run_selection loads the other settings, which may raise; the *)
(* maps of BybitRest give every pair the price 0.                                *)
Select ==
    /\ pc = "gate" /\ cmd.name = "select:save"
    /\ IF ConfigRaises(src) THEN Exit(Junk) /\ UNCHANGED rows
       ELSE /\ IF cmd.client = "maps"
               THEN rows' \in Top(market, Selectable(market), IF cmd.limit > 1 THEN cmd.limit ELSE 1)
               ELSE UNCHANGED rows
            /\ Exit(IF cmd.client = "tickers" THEN Junk ELSE 0)
    /\ UNCHANGED <<input, inChat>>

Next == Start \/ Healthcheck \/ Gate \/ Read \/ Send \/ Select

Spec == Init /\ [][Next]_vars

-----------------------------------------------------------------------------
(* The subscriber and the commands of one process read one environment by two   *)
(* loaders.  Where the loader of config.py does not raise, they give the same   *)
(* value of every setting that is modelled, except: where a nested name is      *)
(* used; a flat number that is 0 or a path that is empty; the switch "y"; the   *)
(* length of a report and the topics, whose defaults differ, when they are not  *)
(* given; a token or chat under another name, or when ENV_FILE leaves .env to   *)
(* pydantic alone.  And a nonzero flat cooldown of the process wins over every  *)
(* file (config.py:204-339, main.py:85-152, dotenv_autoload.py:103-133).        *)
LoadersAgree ==
    LET env == Environ(src)
        conf == Config(src)
        cli == Cli(src)
        nested(n) == Base(src, n) # Unset
        given(ns) == \E n \in ns : env[n] \notin {Unset, Empty}
    IN ~ConfigRaises(src) =>
        /\ conf.cooldown = cli.cooldown
             \/ nested("ALERTS__COOLDOWN_SEC") \/ env["ALERT_COOLDOWN_SEC"] = 0
        /\ conf.price = cli.price \/ nested("LIQUIDITY__MIN_PRICE") \/ env["MIN_PRICE"] = 0
        /\ conf.top = cli.top
             \/ nested("RUNTIME__TOP_N_REPORT") \/ env["TOP_N_REPORT"] \in {Unset, 0}
        /\ conf.db = cli.db \/ nested("RUNTIME__DB_PATH") \/ env["DB_PATH"] = Empty
        /\ conf.enabled = cli.enabled
             \/ nested("RUNTIME__ENABLE_ALERTS") \/ env["ENABLE_ALERTS"] = Yes
        /\ conf.topics = cli.topics \/ ~given({"WS_SUB_TOPICS_SPOT"})
        /\ conf.token = cli.token
             \/ given(TokenNames \ {"TELEGRAM__TOKEN"}) \/ src.envFile # NoFile
        /\ conf.chat = cli.chat
             \/ given(ChatNames \ {"TELEGRAM__CHAT_ID"}) \/ src.envFile # NoFile
        /\ src.proc["ALERT_COOLDOWN_SEC"] \notin {Unset, 0}
             => conf.cooldown = src.proc["ALERT_COOLDOWN_SEC"]

(* A command never sends with the alerts switched off, without a token or       *)
(* without a chat; 1 means that nothing was sent; and 0 of tg:send and          *)
(* report:send, when the alerts are on, that the message is in the chat         *)
(* (main.py:501-619).                                                           *)
CommandsHonest ==
    /\ inChat => Cli(src).enabled /\ HasTelegram
    /\ status = 1 => ~inChat
    /\ status = 0 /\ cmd.name \in {"tg:send", "report:send"} /\ Cli(src).enabled => inChat

(* The bot scans the market three times over.  basis:alert shows nothing that    *)
(* the selector would not save or the cache not propose, except symbols below    *)
(* the minimal price or not admitted by the lists, which it does not look at,    *)
(* and for the selector symbols whose order books are thin.  What the selector   *)
(* saves the cache proposes too, except where the futures' turnover is too small *)
(* (main.py:344-400, selector.py:105-111 and 171-216, cache.py:132-171).         *)
ScannersAgree ==
    LET unlooked(s) == market[s].spot < MinPrice \/ ~Allowed(s) IN
    /\ cmd.name = "basis:alert" =>
         \A s \in rows : /\ s \in CacheCandidates(market) \/ unlooked(s)
                         /\ s \in Selectable(market) \/ unlooked(s) \/ ~market[s].deep
    /\ cmd.name = "select:save" =>
         \A s \in rows : s \in CacheCandidates(market) \/ market[s].linVol < MinVol
=============================================================================
