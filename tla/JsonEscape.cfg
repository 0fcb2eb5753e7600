SPECIFICATION EscapeSpec
CONSTANT Texts <- BoundaryTexts
INVARIANTS OutputIsJson LengthIsUtf8 ReadsBack
