CONSTANTS
    Size = 4
    Seqs <- MCSeqs
SPECIFICATION Spec
INVARIANTS
    BitmapIsHistory
PROPERTIES
    ImplementsAntiReplay
    PortsAgree
