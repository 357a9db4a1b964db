SPECIFICATION FairSpec
CONSTANTS
  WordMod = 8
  Handler = 0
  HighByte <- MCHighByte
  LowByte <- MCLowByte
  Device <- MCDevice
  Jobs <- MCJobs
  Opcodes <- MCOpcodes
INVARIANTS
  TypeOK
  Resumes
PROPERTIES
  ImplementsBlockOp
  Completes
