SPECIFICATION RecordsSpec
CONSTANTS
  none = none
  null = null
  absent = absent
  f1 = f1
  f2 = f2
  f3 = f3
  f4 = f4
  None = none
  Missing = none
  Null = null
  Absent = absent
  Unparsable = null
  Instant <- MCInstant
  BeyondRange = {"year10000"}
  YearOf <- MCYearOf
  YearBegun <- MCYearOf
  Before2013 = {"y2012"}
  Department <- MCDepartment
  Program <- MCProgram
  LanguageName <- MCLanguageName
  Plain <- MCPlain
  AlmaHolding = {"22h"}
  LibraryOf <- MCLibraryOf
  Group <- MCGroup
  GroupExact <- MCGroupExact
  PartnerOf <- MCPartnerOf
  Folder = {f1, f2, f3, f4}
  Item <- MCItem
  Listing <- MCListing
  KnownFormat = {"Book"}
  PerPage = 1
  ChunkSize = 2
  Retries = 3
  MaxChanges = 2
  MaxFailures = 4
  MaxRuns = 2
  Coin = {"denarius", "drachm", "follis"}
  CoinListing <- MCCoinListing
  CoinsPerPage = 2
  CoinsPerSlice = 2
  MaxEdits = 2
  MaxCoinFailures = 2
  Day = {1, 2, 3}
  LegacyTheses <- MCLegacyTheses
  MarcRecords <- MCMarcRecords
INVARIANTS SameThesis EmbargoLifts OneAvailability PrivateItemsHidden LoansKeepLibraries QuietListingIsWhole CoinsUpToDate
PROPERTIES WholeHarvest EphemeraEnds
CHECK_DEADLOCK FALSE
