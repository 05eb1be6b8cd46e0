SPECIFICATION Spec
CONSTANTS
    Arena = 5
    RSIZE_MAX = 4
    BITSPERBYTE = 2
    UINT_RANGE = 256
    LONG_WIDTH = 16
    SIZE_WIDTH = 8
    CHAR_SIGNED = TRUE
    THOUSAND = 3
    KIBI = 4
    LAST_UNIT = 3
    BYTES = 4
    SEARCH_RSIZE_MAX = 100
    TOKEN_RSIZE_MAX = 6
    Characters = {1, 2, 3}
    Delimiters <- MCDelimiters
    C_STR_LITERAL_LIMIT = 40
    YEARS_RANGE = 256
    TIME_RSIZE_MAX = 1000
    SEC_MAX = 60
    UINT32_RANGE = 256
    THOUSAND_OF = 3
    Contents <- MCContents
    Wide <- MCWide
    Far <- MCFar
    Multiples <- MCMultiples
    Lengths <- MCLengths
    Starts <- MCStarts
    Limits <- MCLimits
    Drawn <- MCDrawn
    Degrees <- MCDegrees
    Amounts <- MCAmounts
    Bodies <- MCBodies
    Specifiers <- MCSpecifiers
    Tables <- MCTables
    Names <- MCNames
    Blanked <- MCBlanked
    Entries <- MCEntries
    OPENSEA_PATH_MAX = 5
    Seconds <- MCSeconds
    Ahead <- MCAhead
    Readings <- MCReadings
    Ticks <- MCTicks
    Frequencies <- MCFrequencies
    Resolutions <- MCResolutions
    Sleeps <- MCSleeps
INVARIANTS CopiesStayInBounds BitsAreWhereTheyBelong RoundedToTheNextMultiple ConvertedValueIsTheSame TypedNumberIsTheOneGiven QuantityIsExact WalkTakesWhatPrintfTakes SortedAndFound TokensAreTheParts StringsAreWhatTheyAreMadeOf  PatternsFillAndNumbersStayInRange
