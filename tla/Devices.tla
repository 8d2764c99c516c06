------------------------------ MODULE Devices -------------------------------
(***************************************************************************)
(* The programs that work on a device of their own: what esp32/main can    *)
(* start besides the network tasks (web server, card reader, displays),    *)
(* the lessons around one peripheral, and the projects they were made      *)
(* from.  A board runs one of them: `image' says which.                    *)
(***************************************************************************)
EXTENDS HttpServer, Rc522, St7735, OledPanel, OledText, Pca9685, Dht11, Sht30, IrRemote, Tm1638,
        NvsLesson, KeyLesson, Sntp, LedLamp, OledLesson

VARIABLE image \* the program

Images == {"http", "rc522", "st7735", "oled", "text", "pca9685", "dht11", "sht30", "ir", "tm1638",
           "nvs", "key", "sntp", "lamp", "hx-oled"}

vars == <<image, http_vars, rc_vars, lcd_vars, oled_vars, text_vars, pca_vars, dht_vars, sht_vars,
          ir_vars, tm_vars, nvs_vars, kl_vars, sntp_vars, ll_vars, ol_vars>>

TypeOK ==
    /\ image \in Images
    /\ HttpTypeOK /\ RcTypeOK /\ LcdTypeOK /\ OledPanelTypeOK /\ TextTypeOK /\ PcaTypeOK
    /\ DhtTypeOK /\ ShtTypeOK /\ IrTypeOK /\ TmTypeOK /\ NvsTypeOK /\ KeyLessonTypeOK
    /\ SntpTypeOK /\ LedLampTypeOK /\ OledLessonTypeOK

\* What may vary from the start is pinned where it plays no part.
Init ==
    /\ image \in Images
    /\ HttpInit /\ RcInit /\ LcdInit /\ DhtInit /\ ShtInit /\ IrInit /\ NvsInit /\ SntpInit
    /\ OledPanelInit  /\ (image # "oled" => panel = {})
    /\ TextInit       /\ (image # "text" => text_n = 1)
    /\ PcaInit        /\ (image # "pca9685" => ~pca_counts /\ \A p \in Pins : pca_led[p].on = 0)
    /\ TmInit         /\ (image # "tm1638" => \A k \in TmKeys : tm_num[k] = 0)
    /\ KeyLessonInit  /\ (image # "key" => kl_pin = 1)
    /\ LedLampInit    /\ (image # "lamp" => ll_pins = {})
    /\ OledLessonInit /\ (image # "hx-oled" => \A line \in 1..Len(OlRows) :
                                ol_lengths[line] = CHOOSE n \in OlLengths : TRUE)

\* The other programs do not run.
Only(name) ==
    /\ image = name /\ UNCHANGED image
    /\ name # "http" => UNCHANGED http_vars
    /\ name # "rc522" => UNCHANGED rc_vars
    /\ name # "st7735" => UNCHANGED lcd_vars
    /\ name # "oled" => UNCHANGED oled_vars
    /\ name # "text" => UNCHANGED text_vars
    /\ name # "pca9685" => UNCHANGED pca_vars
    /\ name # "dht11" => UNCHANGED dht_vars
    /\ name # "sht30" => UNCHANGED sht_vars
    /\ name # "ir" => UNCHANGED ir_vars
    /\ name # "tm1638" => UNCHANGED tm_vars
    /\ name # "nvs" => UNCHANGED nvs_vars
    /\ name # "key" => UNCHANGED kl_vars
    /\ name # "sntp" => UNCHANGED sntp_vars
    /\ name # "lamp" => UNCHANGED ll_vars
    /\ name # "hx-oled" => UNCHANGED ol_vars

Next ==
    \/ Only("http") /\ HttpNext
    \/ Only("rc522") /\ RcNext
    \/ Only("st7735") /\ LcdNext
    \/ Only("oled") /\ OledPanelNext
    \/ Only("text") /\ TextNext
    \/ Only("pca9685") /\ PcaNext
    \/ Only("dht11") /\ DhtNext
    \/ Only("sht30") /\ ShtNext
    \/ Only("ir") /\ IrNext
    \/ Only("tm1638") /\ TmNext
    \/ Only("nvs") /\ NvsNext
    \/ Only("key") /\ KeyLessonNext
    \/ Only("sntp") /\ SntpNext
    \/ Only("lamp") /\ LedLampNext
    \/ Only("hx-oled") /\ OledLessonNext

Spec == Init /\ [][Next]_vars

-----------------------------------------------------------------------------
\* What a sensor is said to have measured is what it sent, and what a reader is
\* said to have read is what the card or the remote control sent: nothing that
\* was cut short, garbled or uninitialised is reported; and the time is not
\* taken for set before it is, unless every attempt was used up.  (Which reading
\* of the humidity sensor two of its getters return is GettersNamed.)
ReadingsTrue == TagWhole /\ DhtChecked /\ ShtChecked /\ IrWhole /\ SntpWaits

\* What a display, a lamp or a counter in the flash shows is what the program
\* was told to show, whatever failed on the way (bsp_st7735.c, bsp_oled.c and
\* oled.c, pca9685.c, hx_tm1638.c, hx-nvs.c, hx_key.c, bsp_led_rgb.c).
OutputsTrue == LcdExact /\ OledShows /\ PcaDark /\ TmInTable /\ NvsCounted /\ LampsInTurn
               /\ LampWalks /\ OlShows
=============================================================================
