CONSTANTS
  Fold <- MCFold
  Within <- MCWithin
  TagNames <- MCTagNames
  TagOf <- MCTagOf
  TagText <- MCTagText
  Columns = {"folder"}
  Rules <- MCRules
  Versions <- MCVersions
  Playlists <- MCPlaylists
  Queries <- MCQueries
  Sizes = {1}
  UsualSize = 2
SPECIFICATION QuerySpec
INVARIANT QueriesAgree
