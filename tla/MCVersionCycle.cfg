CONSTANTS
  Texts <- MCTexts
  X86_64 = "x86_64"
  MaxValue = 99
  Numbers <- MCNumbers
  Requirements <- MCRequirements
  Offers <- MCOffers
  Names <- MCNames
  Name = "p"
  MaxUpgrades = 3
SPECIFICATION Spec
INVARIANT NoDowngrade
