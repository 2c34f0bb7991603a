------------------------------- MODULE Settings -------------------------------
(***************************************************************************)
(* The two settings loaders of the bot.  src/infra/config.py, which the    *)
(* selector, the store and the alert subscriber use, reads the environment *)
(* through pydantic-settings and then once more by itself, with aliases.   *)
(* src/main.py, used by every command and by scripts/ws_bot_runner.py,     *)
(* looks for a module src/settings.py that does not exist and falls back   *)
(* to reading its own variables with its own defaults.                     *)
(*                                                                         *)
(* The settings here are those whose names, rules or defaults differ from  *)
(* one another: an alert number (the cooldown; the threshold is read the   *)
(* same way), a liquidity number (the minimal price; the minimal turnover  *)
(* too), the length of a report, the database's path, the alert switch,    *)
(* the topics of a stream, and the token and chat of Telegram.             *)
(***************************************************************************)
EXTENDS Integers

CONSTANTS
    Numbers,            \* the numbers that occur in a variable
    Texts,              \* the texts: tokens, chats, paths, lists of topics
    Unset, Empty, Junk, \* no variable; the empty string; one that does not parse
    Yes,                \* "y", true for one loader and false for the other
    NoFile              \* ENV_FILE is not set, or names no file

ASSUME SettingsAssumption ==
    /\ Numbers \subseteq Int
    /\ {Unset, Empty, Junk} \cap (Numbers \cup Texts) = {}
    /\ {Unset, Empty, Junk, Yes} \cap BOOLEAN = {}

Numeric == {"ALERT_COOLDOWN_SEC", "ALERTS__COOLDOWN_SEC", "MIN_PRICE", "LIQUIDITY__MIN_PRICE",
            "TOP_N_REPORT", "RUNTIME__TOP_N_REPORT"}
Boolean == {"ENABLE_ALERTS", "RUNTIME__ENABLE_ALERTS"}
PathNames == {"DB_PATH", "RUNTIME__DB_PATH"}
TopicNames == {"WS_SUB_TOPICS_SPOT", "BYBIT__WS_SUB_TOPICS_SPOT"}
TokenNames == {"TELEGRAM__TOKEN", "TELEGRAM_TOKEN", "TELEGRAM_BOT_TOKEN", "TELEGRAM__BOT_TOKEN"}
ChatNames == {"TELEGRAM__CHAT_ID", "TG_CHAT_ID", "TELEGRAM_CHAT_ID", "TELEGRAM_ALERT_CHAT_ID",
              "TELEGRAM__ALERT_CHAT_ID"}
Names == Numeric \cup Boolean \cup PathNames \cup TopicNames \cup TokenNames \cup ChatNames
Nothing == [n \in Names |-> Unset]

(* The sections AlertsConfig, LiquidityConfig and RuntimeConfig: their bounds and *)
(* defaults, and those of BybitConfig.  A price is in thousandths.                *)
CooldownRange == 0..86400
PriceRange == Nat
TopRange == 1..100
TwoTickers == "tickers.BTCUSDT,tickers.ETHUSDT"
SignalsDb == "data/signals.db"
ConfigDefaults == [cooldown |-> 300, price |-> 1, top |-> 10, db |-> SignalsDb,
                   enabled |-> TRUE, topics |-> TwoTickers]

(* The defaults of main.py's load_settings. *)
CliDefaults == [cooldown |-> 300, price |-> 1, top |-> 3, db |-> SignalsDb]

-----------------------------------------------------------------------------
\* Mutant: the file replaces what the process already has.
Environ_Override(src) ==
    LET file == IF src.envFile = NoFile THEN src.cwd ELSE src.envFile IN
    [n \in Names |-> IF file[n] # Unset THEN file[n] ELSE src.proc[n]]

(* autoload_env, at the import of config: the file that ENV_FILE names, or else *)
(* .env, fills in the variables the process does not have.  A behaviour's src   *)
(* holds the process environment, that file, and .env.                          *)
Environ(src) ==
    LET file == IF src.envFile = NoFile THEN src.cwd ELSE src.envFile IN
    [n \in Names |-> IF src.proc[n] # Unset THEN src.proc[n] ELSE file[n]]

(* A step of _from_env_many, and of `or` between texts. *)
OrElse(v, w) == IF v \in {Unset, Empty} THEN w ELSE v

-----------------------------------------------------------------------------
(* AppSettings(): the environment, and behind it .env, whatever ENV_FILE says. *)
Base(src, n) == IF Environ(src)[n] # Unset THEN Environ(src)[n] ELSE src.cwd[n]
BaseOr(src, n, default) == IF Base(src, n) = Unset THEN default ELSE Base(src, n)

(* What validation refuses: a text that is no number or truth value, the empty *)
(* one included, and in a section a number out of its bounds.                  *)
BaseRaises(src) ==
    \/ \E n \in Numeric \cup Boolean : Base(src, n) \in {Empty, Junk}
    \/ Base(src, "ALERTS__COOLDOWN_SEC") \in Numbers \ CooldownRange
    \/ Base(src, "LIQUIDITY__MIN_PRICE") \in Numbers \ PriceRange
    \/ Base(src, "RUNTIME__TOP_N_REPORT") \in Numbers \ TopRange

(* One of two aliases of a number, then the section; `or` takes a zero for nothing. *)
Aliased(src, a, b, base) ==
    LET v == OrElse(Environ(src)[a], OrElse(Environ(src)[b], base))
    IN IF v = 0 THEN base ELSE v

(* The alert settings are flat before nested, the others nested before flat. *)
ConfigCooldown(src) ==
    Aliased(src, "ALERT_COOLDOWN_SEC", "ALERTS__COOLDOWN_SEC",
            BaseOr(src, "ALERTS__COOLDOWN_SEC", ConfigDefaults.cooldown))
ConfigPrice(src) ==
    Aliased(src, "LIQUIDITY__MIN_PRICE", "MIN_PRICE",
            BaseOr(src, "LIQUIDITY__MIN_PRICE", ConfigDefaults.price))
ConfigTop(src) ==
    Aliased(src, "RUNTIME__TOP_N_REPORT", "TOP_N_REPORT",
            BaseOr(src, "RUNTIME__TOP_N_REPORT", ConfigDefaults.top))

ConfigEnabled(src) ==
    LET base == BaseOr(src, "RUNTIME__ENABLE_ALERTS", ConfigDefaults.enabled)
    IN OrElse(Environ(src)["RUNTIME__ENABLE_ALERTS"], OrElse(Environ(src)["ENABLE_ALERTS"], base))
         \in {TRUE, Yes}

ConfigDb(src) ==
    LET base == BaseOr(src, "RUNTIME__DB_PATH", ConfigDefaults.db)
    IN OrElse(Environ(src)["RUNTIME__DB_PATH"], OrElse(Environ(src)["DB_PATH"], base))

(* ws_topics_list_spot: the flat list of AppSettings, or that of its section. *)
ConfigTopics(src) ==
    OrElse(Base(src, "WS_SUB_TOPICS_SPOT"),
           BaseOr(src, "BYBIT__WS_SUB_TOPICS_SPOT", ConfigDefaults.topics))

ConfigToken(src) ==
    LET env == Environ(src) IN
    OrElse(env["TELEGRAM__TOKEN"], OrElse(env["TELEGRAM_TOKEN"], OrElse(env["TELEGRAM_BOT_TOKEN"],
    BaseOr(src, "TELEGRAM__TOKEN", Empty))))

ConfigChat(src) ==
    LET env == Environ(src) IN
    OrElse(env["TELEGRAM__CHAT_ID"], OrElse(env["TG_CHAT_ID"], OrElse(env["TELEGRAM_CHAT_ID"],
    OrElse(env["TELEGRAM_ALERT_CHAT_ID"], BaseOr(src, "TELEGRAM__CHAT_ID", Empty)))))

(* _build_settings raises in AppSettings(), or when a section is built again. *)
ConfigRaises(src) ==
    \/ BaseRaises(src)
    \/ ConfigCooldown(src) \notin CooldownRange
    \/ ConfigPrice(src) \notin PriceRange
    \/ ConfigTop(src) \notin TopRange

Config(src) == [cooldown |-> ConfigCooldown(src), price |-> ConfigPrice(src),
                top |-> ConfigTop(src), db |-> ConfigDb(src),
                enabled |-> ConfigEnabled(src), topics |-> ConfigTopics(src),
                token |-> ConfigToken(src), chat |-> ConfigChat(src)]

-----------------------------------------------------------------------------
(* load_settings of main.py: flat names only, and a number that cannot be read *)
(* is the default.                                                             *)
Readable(v, default) == IF v \in {Unset, Empty, Junk} THEN default ELSE v

Cli(src) ==
    LET env == Environ(src) IN
    [cooldown |-> Readable(env["ALERT_COOLDOWN_SEC"], CliDefaults.cooldown),
     price |-> Readable(env["MIN_PRICE"], CliDefaults.price),
     top |-> Readable(env["TOP_N_REPORT"], CliDefaults.top),
     db |-> IF env["DB_PATH"] = Unset THEN CliDefaults.db ELSE env["DB_PATH"],
     enabled |-> env["ENABLE_ALERTS"] \in {Unset, TRUE},
     topics |-> OrElse(env["WS_SUB_TOPICS_SPOT"], Empty),
     token |-> OrElse(env["TELEGRAM__BOT_TOKEN"], OrElse(env["TELEGRAM__TOKEN"], Empty)),
     chat |-> OrElse(env["TELEGRAM__ALERT_CHAT_ID"], OrElse(env["TELEGRAM__CHAT_ID"], Empty))]
=============================================================================
