--------------------------- MODULE MCThemeStudio ---------------------------
EXTENDS ThemeStudio, TLC

\* Two presets; the first can be copied, and no copy can.
MCPresets == "neon" :> 1 @@ "daylight" :> 2
MCCopies == "neon" :> "neon-copy"
=============================================================================
