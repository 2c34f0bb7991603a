------------------------------ MODULE MCCommands ------------------------------
(* The instance of Commands that TLC checks.  A source varies the names of one *)
(* setting at a time, in all three places they can come from.                  *)
EXTENDS Commands

CONSTANTS tok, chan, path, topic

MCNumbers == {-1, 0, 5, 101}
MCTexts == {tok, chan, path, topic}
Numeral == MCNumbers \cup {Unset, Empty, Junk}
Few == {Unset, 5}
Text(v) == {Unset, Empty, v}
Truth == {Unset, Empty, TRUE, FALSE, Yes}

(* The assignments that give the names of ns values of vals; the process has a *)
(* token and a chat, except in the groups of these.                            *)
Only(ns, vals) == {[n \in Names |-> IF n \in ns THEN f[n] ELSE Unset] : f \in [ns -> vals]}
WithChat(envs) == {[e EXCEPT !["TELEGRAM__CHAT_ID"] = chan] : e \in envs}
WithToken(envs) == {[e EXCEPT !["TELEGRAM__TOKEN"] = tok] : e \in envs}
Varying(procs, ns, file, cwd) ==
    [proc : procs, envFile : Only(ns, file) \cup {NoFile}, cwd : Only(ns, cwd)]
Group(ns, vals, file, cwd) == Varying(WithChat(WithToken(Only(ns, vals))), ns, file, cwd)

MCSources ==
    Group({"ALERT_COOLDOWN_SEC", "ALERTS__COOLDOWN_SEC"}, Numeral, Few, Few)
    \cup Group({"MIN_PRICE", "LIQUIDITY__MIN_PRICE"}, Numeral, Few, Few)
    \cup Group({"TOP_N_REPORT", "RUNTIME__TOP_N_REPORT"}, Numeral, Few, Few)
    \cup Group(Boolean, Truth, {Unset, FALSE}, {Unset, FALSE})
    \cup Group(PathNames, Text(path), Text(path), {Unset, path})
    \cup Group(TopicNames, Text(topic), Text(topic), {Unset, topic})
    \cup Varying(WithChat(Only(TokenNames, Text(tok))), {"TELEGRAM__TOKEN"},
                 {Unset, tok}, {Unset, tok})
    \cup Varying(WithToken(Only(ChatNames, Text(chan))), {"TELEGRAM__CHAT_ID"},
                 {Unset, chan}, {Unset, chan})

(* eth, whose market is always good, is on the deny list; a spot price of 1 is *)
(* below the minimum.                                                          *)
MCSymbols == {"btc", "eth"}
Quote == [spot : {0, 1, 100}, fut : {100, 103}, spotVol : {0, 20}, linVol : {5, 20}, deep : BOOLEAN]
Good == [spot : {100}, fut : {95, 103}, spotVol : {20}, linVol : {20}, deep : {TRUE}]
MCMarkets == [btc : Quote \cup {Unset}, eth : Good \cup {Unset}]

CommandNames == Senders \cup {"healthcheck", "select:save"}
Command(n, c, l) == [name |-> n, client |-> c, limit |-> l]
Plain == [btc |-> [spot |-> 100, fut |-> 103, spotVol |-> 20, linVol |-> 20, deep |-> TRUE],
          eth |-> Unset]
Configured ==
    [proc |-> [n \in Names |-> IF n = "TELEGRAM__TOKEN" THEN tok
                              ELSE IF n = "TELEGRAM__CHAT_ID" THEN chan ELSE Unset],
     envFile |-> NoFile, cwd |-> Nothing]

(* Every command in every environment, and the two that scan on every market. *)
MCInputs ==
    {[src |-> s, cmd |-> Command(n, "maps", 1), market |-> Plain] : s \in MCSources, n \in CommandNames}
    \cup {[src |-> Configured, cmd |-> Command(n, c, l), market |-> m] :
            n \in {"basis:alert", "select:save"}, c \in Clients, l \in 0..2, m \in MCMarkets}
=============================================================================
