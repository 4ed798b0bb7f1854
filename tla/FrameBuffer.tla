----------------------------- MODULE FrameBuffer -----------------------------
(* linux-graphics/fb.cpp: a clock that draws the hour and the minute into the frame    *)
(* buffer, with the glyphs of a console font.                                  *)
(*                                                                           *)
(* The frame buffer is its xres * yres words; a picture is the set of the words that    *)
(* are written.  An unsigned number has one of WordModulus values, a minute has Minute   *)
(* seconds, and the text has len characters.  The clock of the system is at now seconds.          *)
EXTENDS Integers, FiniteSets

CONSTANTS
    Screens,        \* records with xres and yres
    Fonts,          \* records with height, width and size of a glyph
    WordModulus,    \* 2^w where a uint32_t has w bits
    Minute,
    len,
    Delays,         \* how much longer than a second a round may take
    Seconds         \* the clock is followed up to here

ASSUME FbAssumption ==
    /\ Screens \subseteq [xres : Nat, yres : Nat]
    /\ Fonts \subseteq [height : Nat, width : Nat, size : Nat]
    /\ WordModulus \in Nat \ {0} /\ Minute \in Nat \ {0}
    /\ len \in Nat /\ Seconds \in Nat
    /\ Delays \subseteq Nat

\* The size of the mapping in bytes is computed in 32 bits as well, and must not wrap
\* for the frame buffer to be mapped as a whole.
ASSUME ScreensAssumption == \A s \in Screens : 4 * (s.xres * s.yres) < WordModulus

VARIABLES
    screen,         \* info
    font,           \* header
    drawing,        \* where the program is
    now,            \* seconds
    local,          \* the minute and the second of the last time(NULL)
    rounds,         \* i
    delay,          \* the delays since then
    picture         \* the offsets written in the last round

fbVars == <<screen, font, drawing, now, local, rounds, delay, picture>>

\* uint32_t
Wrap(n) == n % WordModulus

FbInit ==
    /\ screen \in Screens /\ font \in Fonts
    /\ drawing = "open"
    /\ now \in 0 .. (Minute - 1)
    /\ local = [minute |-> 0, second |-> 0]
    /\ rounds = 0 /\ delay = 0
    /\ picture = {}

-----------------------------------------------------------------------------

\* Every file, header, glyph and ioctl that is missing or wrong ends the program.
Open ==
    /\ drawing = "open"
    /\ drawing' \in {"time", "exited"}
    /\ UNCHANGED <<screen, font, now, local, rounds, delay, picture>>

\* time and localtime, which may fail.  A leap second is one more second of its minute.
Time ==
    /\ drawing = "time" /\ now < Seconds
    /\ \E leap \in BOOLEAN :
          local' = IF leap /\ now > 0 /\ now % Minute = 0
                   THEN [minute |-> (now \div Minute) - 1, second |-> Minute]
                   ELSE [minute |-> now \div Minute, second |-> now % Minute]
    /\ rounds' = 0 /\ delay' = 0
    /\ drawing' \in {"draw", "exited"}
    /\ UNCHANGED <<screen, font, now, picture>>

\* left, at the first character; x of a character's column.
Left == Wrap(screen.xres - font.width * len)

\* Mutant of Word: rows of the length of the text.
WordOfText(x, y) == Wrap(y * (font.width * len) + x)

\* buf[y * info.xres + x]
Word(x, y) == Wrap(y * screen.xres + x)

Border ==
    {Word(Left - 1, y) : y \in 0 .. (font.height - 1)}
        \cup {Word(x, font.height) : x \in Wrap(Left - 1) .. (screen.xres - 1)}

Glyph(k) ==
    {Word(Left + k * font.width + x, y) : x \in 0 .. (font.width - 1), y \in 0 .. (font.height - 1)}

\* The bits of a glyph lie in rows of glyphSize / glyphHeight bytes.
GlyphBytes ==
    {y * (font.size \div font.height) + x \div 8 :
        x \in 0 .. (font.width - 1), y \in 0 .. (font.height - 1)}

\* One round of the inner loop, and the second that it sleeps.
Draw ==
    /\ drawing = "draw" /\ rounds < Minute - local.second
    /\ IF font.height = 0
       THEN drawing' = "divided by zero" /\ UNCHANGED <<picture, rounds, now, delay>>
       ELSE /\ picture' = Border \cup UNION {Glyph(k) : k \in 0 .. (len - 1)}
            /\ rounds' = rounds + 1
            /\ \E d \in Delays : now' = now + 1 + d /\ delay' = delay + d
            /\ UNCHANGED drawing
    /\ UNCHANGED <<screen, font, local>>

NextMinute ==
    /\ drawing = "draw" /\ rounds >= Minute - local.second
    /\ drawing' = "time"
    /\ UNCHANGED <<screen, font, now, local, rounds, delay, picture>>

FbOver ==
    /\ drawing \in {"exited", "divided by zero"} \/ (drawing = "time" /\ now >= Seconds)
    /\ UNCHANGED fbVars

FbNext == Open \/ Time \/ Draw \/ NextMinute \/ FbOver

FbSpec == FbInit /\ [][FbNext]_fbVars

-----------------------------------------------------------------------------

\* The picture lies within the frame buffer if the screen is wider than the text and
\* higher than a glyph (a screen that is just as large is too small: the border is one
\* word outside); the glyphs are then side by side and leave the border free.  The
\* bytes of a glyph are its own if each of its rows has enough of them.
PictureFits ==
    picture # {} /\ screen.xres > font.width * len /\ screen.yres > font.height =>
        /\ picture \subseteq 0 .. (screen.xres * screen.yres - 1)
        /\ Cardinality(UNION {Glyph(k) : k \in 0 .. (len - 1)}) = len * font.width * font.height
        /\ Border \cap UNION {Glyph(k) : k \in 0 .. (len - 1)} = {}
        /\ 8 * (font.size \div font.height) >= font.width => GlyphBytes \subseteq 0 .. (font.size - 1)

\* The minute on the screen is over by no more than the rounds were late when it is
\* drawn the next time: the text is made once a minute, and the rounds until the next
\* are counted, not timed.  In a leap second there is no round at all.
ShowsTheMinute ==
    drawing = "draw" /\ rounds < Minute - local.second =>
        now < (local.minute + 1) * Minute + delay

\* What the screen shows is whole, and in time.
DrawsTheMinute == PictureFits /\ ShowsTheMinute
=============================================================================
