------------------------------- MODULE Console -------------------------------
(***************************************************************************)
(* The second serial port and its two users.  The display thread           *)
(* (display.c) wakes every second, obeys one key and prints a page; the    *)
(* position thread, of lower priority, prints the log (log.c) when that is *)
(* what the key asked for.  Both send with uart2_send_string (serial.c),   *)
(* which waits for the transmitter and then writes, without a lock.  The   *)
(* ephemeris and allocate threads, of higher priority, change an ephemeris *)
(* and flag it for the log at any time.                                    *)
(*                                                                         *)
(* A character is only known by what it belongs to: a record of the log or *)
(* a page.  A record is printed in parts, each made by a sprintf that      *)
(* reads what it prints.                                                   *)
(*                                                                         *)
(* The proofs extend this module beside another, hence ConsoleSpec and the *)
(* like.                                                                   *)
(***************************************************************************)
EXTENDS Integers

CONSTANTS
  N_CHANNELS,
  PARTS,      \* of a record
  PART,       \* characters of a part
  PAGE,       \* characters of a page, and of the string that clears the screen
  MODES,      \* ephemeris pages: 6
  VERSIONS    \* data sets a satellite sends by turns

ASSUME ConsoleAssumption ==
  /\ N_CHANNELS \in Nat \ {0} /\ PARTS \in Nat \ {0} /\ PART \in Nat \ {0}
  /\ PAGE \in Nat \ {0} /\ MODES \in Nat \ {0} /\ VERSIONS \in Nat \ {0}

VARIABLES
  tx,                     \* the port's register: whose character it holds
  display_command, ephemeris_mode, current_display,
  d_left,                 \* characters the display thread has still to send
  p_pc, p_ch,             \* the position thread; N_CHANNELS when it prints a fix
  p_at,                   \* characters of its record written so far
  log_eph,
  ephemeris,              \* the version in ephemeris[ch], or NotValid
  read,                   \* history: the versions printed in this record
  logged,                 \* history: what a channel has was logged: no, whole, cut
  arrived,                \* history: characters of this record that were sent out
  pages                   \* history: pages begun since the record was

displayVars  == <<display_command, ephemeris_mode, current_display, d_left>>
positionVars == <<p_pc, p_ch, p_at, read>>
ephemerisVars == <<log_eph, ephemeris, logged>>
seenVars     == <<arrived, pages>>
consoleVars == <<tx, displayVars, positionVars, ephemerisVars, seenVars>>

Channels == 0 .. N_CHANNELS - 1
RECORD == PARTS * PART
None == "none"
NotValid == 0
Page == {"TRACKING", "EPHEMERIS"}
Command == Page \cup {"STOP", "LOG"}

ConsoleTypeOK ==
  /\ tx \in {None, "log", "page"}
  /\ display_command \in Command /\ ephemeris_mode \in 0 .. MODES - 1
  /\ current_display \in Page \cup {None} /\ d_left \in 0 .. 2 * PAGE
  /\ p_pc \in {"wait", "eph", "channel", "format", "poll", "write", "end"}
  /\ p_ch \in Channels \cup {N_CHANNELS} /\ p_at \in 0 .. RECORD
  /\ log_eph \in [Channels -> BOOLEAN] /\ ephemeris \in [Channels -> 0 .. VERSIONS]
  /\ read \subseteq 0 .. VERSIONS
  /\ logged \in [Channels -> {"no", "whole", "cut"}]
  /\ arrived \in -1 .. RECORD /\ pages \in 0 .. RECORD

ConsoleInit ==
  /\ tx = None
  /\ display_command = "TRACKING" /\ ephemeris_mode = 0
  /\ current_display = None /\ d_left = 0
  /\ p_pc = "wait" /\ p_ch = N_CHANNELS /\ p_at = 0
  /\ log_eph = [c \in Channels |-> FALSE] /\ ephemeris = [c \in Channels |-> NotValid]
  /\ read = {} /\ logged = [c \in Channels |-> "no"]
  /\ arrived = 0 /\ pages = 0

-----------------------------------------------------------------------------
(* The port.                                                               *)

Transmit ==
  /\ tx # None /\ tx' = None
  /\ arrived' = IF tx = "log" THEN arrived + 1 ELSE arrived
  /\ UNCHANGED <<displayVars, positionVars, ephemerisVars, pages>>

\* Mutant: SSR_TxEmpty is not waited for.
NoWait == TRUE

TxEmpty == tx = None

-----------------------------------------------------------------------------
(* The display thread.  Nothing of lower priority runs until it sleeps.    *)

Sleeping == d_left = 0

\* The position thread is in a record of the log.
Printing == p_pc \in {"format", "poll", "write", "end"}

\* "e" again turns the pages of the ephemeris; the one after the last is empty.
NewMode(key) == IF key = "EPHEMERIS" /\ display_command = key
                  THEN ephemeris_mode + 1 ELSE ephemeris_mode

\* Mutant: one page too many.
PastAll(key) == key = "EPHEMERIS" /\ NewMode(key) > MODES

PastLast(key) == key = "EPHEMERIS" /\ NewMode(key) = MODES

\* key is the one in the port's register, or the command there was if it is empty.
\* The last character of a page is long out when the second is over.
DisplayWake ==
  /\ Sleeping /\ tx # "page"
  /\ \E key \in Command, got_byte \in BOOLEAN :
       /\ ~got_byte => key = display_command
       /\ display_command' = key
       /\ ephemeris_mode' = IF ~got_byte THEN ephemeris_mode
                           ELSE IF PastLast(key) THEN 0 ELSE NewMode(key)
       /\ IF key \in Page
            THEN /\ current_display' = key
                 /\ d_left' = (IF current_display # key THEN PAGE ELSE 0)
                              + (IF got_byte /\ PastLast(key) THEN 0 ELSE PAGE)
            ELSE UNCHANGED <<current_display, d_left>>
  /\ pages' = IF Printing /\ d_left' > 0 /\ pages < RECORD THEN pages + 1 ELSE pages
  /\ UNCHANGED <<tx, positionVars, ephemerisVars, arrived>>

DisplaySend ==
  /\ ~Sleeping /\ TxEmpty
  /\ tx' = "page" /\ d_left' = d_left - 1
  /\ UNCHANGED <<display_command, ephemeris_mode, current_display, positionVars,
                 ephemerisVars, seenVars>>

-----------------------------------------------------------------------------
(* The position thread.                                                    *)

\* A record of the log begins.
Begin(c) ==
  /\ p_pc' = "format" /\ p_ch' = c
  /\ UNCHANGED <<p_at, read, seenVars>>

\* log_position, if there were enough satellites and the log is on.
PositionWake ==
  /\ Sleeping /\ p_pc = "wait"
  /\ \/ display_command = "LOG" /\ Begin(N_CHANNELS)
     \/ p_pc' = "eph" /\ UNCHANGED <<p_ch, p_at, read, seenVars>>
  /\ UNCHANGED <<tx, displayVars, ephemerisVars>>

log_ephemeris ==
  /\ Sleeping /\ p_pc = "eph"
  /\ IF display_command = "LOG" THEN p_pc' = "channel" /\ p_ch' = 0
                                ELSE p_pc' = "wait" /\ p_ch' = N_CHANNELS
  /\ UNCHANGED <<tx, displayVars, p_at, read, ephemerisVars, seenVars>>

NextChannel ==
  /\ Sleeping /\ p_pc = "channel"
  /\ IF p_ch = N_CHANNELS
       THEN /\ p_pc' = "wait"
            /\ UNCHANGED <<p_ch, p_at, read, seenVars>>
     ELSE IF log_eph[p_ch]
       THEN Begin(p_ch)
     ELSE /\ p_ch' = p_ch + 1
          /\ UNCHANGED <<p_pc, p_at, read, seenVars>>
  /\ UNCHANGED <<tx, displayVars, ephemerisVars>>

\* sprintf of a part.
Format ==
  /\ Sleeping /\ p_pc = "format" /\ p_pc' = "poll"
  /\ read' = IF p_ch \in Channels THEN read \cup {ephemeris[p_ch]} ELSE read
  /\ UNCHANGED <<tx, displayVars, p_ch, p_at, ephemerisVars, seenVars>>

\* uart2_send_string: the test ...
Poll ==
  /\ Sleeping /\ p_pc = "poll" /\ TxEmpty
  /\ p_pc' = "write"
  /\ UNCHANGED <<tx, displayVars, p_ch, p_at, read, ephemerisVars, seenVars>>

\* ... and the write: one of two characters is lost when the transmitter is not
\* empty any more.
Write ==
  /\ Sleeping /\ p_pc = "write"
  /\ tx' \in {"log"} \cup ({tx} \ {None})
  /\ p_at' = p_at + 1
  /\ p_pc' = IF p_at' = RECORD THEN "end"
             ELSE IF p_at' % PART = 0 THEN "format" ELSE "poll"
  /\ UNCHANGED <<displayVars, p_ch, read, ephemerisVars, seenVars>>

\* Mutant: the flags of all channels are cleared.
AllCleared == [c \in Channels |-> FALSE]

\* Mutant: the flag stays up.
FlagLeft == log_eph

FlagCleared == [log_eph EXCEPT ![p_ch] = FALSE]

End ==
  /\ Sleeping /\ p_pc = "end"
  /\ IF p_ch \in Channels
       THEN /\ p_pc' = "channel" /\ p_ch' = p_ch + 1
            /\ log_eph' = FlagCleared
            /\ logged' = IF read = {ephemeris[p_ch]}
                           THEN [logged EXCEPT ![p_ch] = "whole"] ELSE logged
       ELSE p_pc' = "eph" /\ UNCHANGED <<p_ch, log_eph, logged>>
  /\ p_at' = 0 /\ read' = {}
  /\ arrived' = (IF tx = "log" THEN -1 ELSE 0) /\ pages' = 0
  /\ UNCHANGED <<tx, displayVars, ephemeris>>

-----------------------------------------------------------------------------
(* The ephemeris and allocate threads.                                     *)

Changes(c, v) ==
  /\ ephemeris' = [ephemeris EXCEPT ![c] = v]
  /\ logged' = [logged EXCEPT ![c] = IF Printing /\ p_ch = c THEN "cut" ELSE "no"]
  /\ UNCHANGED <<tx, displayVars, positionVars, seenVars>>

update_ephemeris(c) ==
  \E v \in 1 .. VERSIONS :
    /\ v # ephemeris[c] /\ Changes(c, v)
    /\ log_eph' = [log_eph EXCEPT ![c] = TRUE]

clear_ephemeris(c) == Changes(c, NotValid) /\ UNCHANGED log_eph

-----------------------------------------------------------------------------
PositionThread ==
  PositionWake \/ log_ephemeris \/ NextChannel \/ Format \/ Poll \/ Write \/ End

ConsoleNext ==
  \/ Transmit
  \/ DisplayWake \/ DisplaySend
  \/ PositionThread
  \/ \E c \in Channels : update_ephemeris(c) \/ clear_ephemeris(c)

\* The transmitter sends what it holds.  Threads that can run go on; the position
\* thread can while the display thread sleeps, which it does for a second after
\* every page; and measurements keep coming.
Fairness ==
  /\ WF_consoleVars(Transmit) /\ WF_consoleVars(DisplaySend)
  /\ SF_consoleVars(PositionThread)

ConsoleSpec == ConsoleInit /\ [][ConsoleNext]_consoleVars /\ Fairness

-----------------------------------------------------------------------------
(* Properties.                                                             *)

\* serial.c:38-42 waits for the transmitter: the characters of a record of the log
\* come out all, although the display thread may print a page between the test and
\* the write; but for at most one for each page begun in the middle of the record.
LogWhole == p_at - arrived - (IF tx = "log" THEN 1 ELSE 0) <= pages

\* log.c:4-6, "Log the ephemeris from the satellites as it comes in": when the flag
\* of a channel is down, the last record of it is the ephemeris it has, of one data
\* set; unless that came while the record before it was being printed (log.c:102).
EphemerisLogged ==
  \A c \in Channels :
    log_eph[c] \/ ephemeris[c] = NotValid \/ logged[c] \in {"whole", "cut"}

\* The log does not keep the position thread, which still holds pr2_data_fresh, and
\* no flag stays up as long as the log is on, however many pages and keys come.
LogGoesOn ==
  /\ p_pc # "wait" ~> p_pc = "wait"
  /\ \A c \in Channels : []<>(display_command # "LOG") \/ []<>~log_eph[c]
=============================================================================
