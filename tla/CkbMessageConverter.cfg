CONSTANTS
    Channels <- MC_Channels
    Seqs <- MC_Seqs
SPECIFICATION Spec
INVARIANT ConversionNeverPanics
